---- MODULE Spec2Model ----
\* craft-llms: the Markdown transform pipeline (src/src/config.ts, the markdown
\* module) and the page/index assembler (src/unnamed/part_001, build).
\*
\* Strings are sequences of characters, each character a one-character string;
\* "\n" is the line separator.
EXTENDS Integers, Sequences, FiniteSets, TLC

VARIABLES
    \* a call of one exported pure function of the markdown module
    pc,        \* "call" before the function ran, then the name of the function that returned
    input,     \* the arguments of the call
    output,    \* the returned value
    \* calls of expandIncludeDirectives, one at a time
    earlier,   \* the reads of the calls that finished before the current one
    maxDepth,  \* options.maxDepth ?? 5
    disk,      \* the files of the file system: path -> content, or Unread / Missing
    frames,    \* the activations of expand(), outermost first
    stack,     \* the Set<string> of resolved paths passed down expand()
    cache,     \* the Map<string, string> of the call
    reads,     \* every path handed to fs.readFile, in order
    outcome,   \* "running", "returned", or the error thrown
    \* one run of build
    bpc,         \* the position in build()
    config,      \* the BuildConfig passed to build()
    tree,        \* the checkout: the candidate docs roots that exist, and the files under them
    docsRoot,    \* the docs root resolveDocsRoot returned
    files,       \* the paths collectMarkdownFiles returned
    meta,        \* { commit, timestamp } from getRepoMeta
    cursor,      \* the index in files of the file the loop is at
    pageChunks,  \* the lines pushed for the pages processed so far
    indexGroups, \* group -> IndexEntry[], in push order
    written,     \* the output files written so far: path -> text
    result       \* what build() returned or threw

textVars == <<pc, input, output>>
expVars == <<earlier, maxDepth, disk, frames, stack, cache, reads, outcome>>
buildVars == <<bpc, config, tree, docsRoot, files, meta, cursor, pageChunks, indexGroups, written, result>>
vars ==
    <<pc, input, output, earlier, maxDepth, disk, frames, stack, cache, reads, outcome,
      bpc, config, tree, docsRoot, files, meta, cursor, pageChunks, indexGroups, written, result>>

----------------------------------------------------------------------------
\* String primitives (JavaScript String.prototype, as used by the module)

NL == "\n"

IsSpace(c) == c \in {" ", "\t", NL}

StartsWith(s, p) == Len(s) >= Len(p) /\ SubSeq(s, 1, Len(p)) = p

EndsWith(s, p) == Len(s) >= Len(p) /\ SubSeq(s, Len(s) - Len(p) + 1, Len(s)) = p

Drop(s, n) == SubSeq(s, n + 1, Len(s))

\* s.slice(a, b) with 0-based a, b as in JavaScript (0 <= a, b)
Slice(s, a, b) == SubSeq(s, a + 1, IF b > Len(s) THEN Len(s) ELSE b)

RECURSIVE TrimStart(_)
TrimStart(s) == IF s # <<>> /\ IsSpace(Head(s)) THEN TrimStart(Tail(s)) ELSE s

RECURSIVE TrimEnd(_)
TrimEnd(s) == IF s # <<>> /\ IsSpace(s[Len(s)]) THEN TrimEnd(SubSeq(s, 1, Len(s) - 1)) ELSE s

Trim(s) == TrimEnd(TrimStart(s))

\* s.indexOf(c) for a one-character c, 0-based, -1 when absent
IndexOfChar(s, c) ==
    IF \E i \in 1..Len(s) : s[i] = c
    THEN (CHOOSE i \in 1..Len(s) : s[i] = c /\ \A j \in 1..(i - 1) : s[j] # c) - 1
    ELSE -1

\* content.split('\n'): always at least one line
RECURSIVE SplitLines(_)
SplitLines(s) ==
    LET i == IndexOfChar(s, NL)
    IN  IF i = -1 THEN <<s>>
        ELSE <<SubSeq(s, 1, i)>> \o SplitLines(Drop(s, i + 1))

\* lines.join('\n')
RECURSIVE JoinLines(_)
JoinLines(ls) ==
    IF ls = <<>> THEN <<>>
    ELSE IF Len(ls) = 1 THEN ls[1]
    ELSE ls[1] \o <<NL>> \o JoinLines(Tail(ls))

RECURSIVE Concat(_)
Concat(ss) == IF ss = <<>> THEN <<>> ELSE Head(ss) \o Concat(Tail(ss))

\* all sequences over S of length 0..n
SeqsUpTo(S, n) == UNION {[1..k -> S] : k \in 0..n}

----------------------------------------------------------------------------
\* Fence tracker

\* the backquote character is written "BQ"
BQ == "BQ"

Backticks == <<BQ, BQ, BQ>>
Tildes == <<"~", "~", "~">>
NoMarker == <<>>

NotFenced == [inFence |-> FALSE, fenceMarker |-> NoMarker]

FenceMarkerOf(line) ==
    LET trimmed == Trim(line)
    IN  IF StartsWith(trimmed, Backticks) THEN Backticks
        ELSE IF StartsWith(trimmed, Tildes) THEN Tildes
        ELSE NoMarker

\* a tracker that lets either marker close a fence
updateFenceStateAnyMarkerCloses(line, state) ==
    LET marker == FenceMarkerOf(line)
    IN  IF marker = NoMarker THEN state
        ELSE IF ~state.inFence THEN [inFence |-> TRUE, fenceMarker |-> marker]
        ELSE NotFenced

updateFenceState(line, state) ==
    LET marker == FenceMarkerOf(line)
    IN  IF marker = NoMarker THEN state
        ELSE IF ~state.inFence THEN [inFence |-> TRUE, fenceMarker |-> marker]
        ELSE IF state.fenceMarker = marker THEN NotFenced
        ELSE state

----------------------------------------------------------------------------
\* Frontmatter stripper

Dashes == <<"-", "-", "-">>

\* the index of the first line after the first that is a delimiter, 0 when none
RECURSIVE ClosingDelimiter(_, _)
ClosingDelimiter(lines, i) ==
    IF i > Len(lines) THEN 0
    ELSE IF Trim(lines[i]) = Dashes THEN i
    ELSE ClosingDelimiter(lines, i + 1)

FrontmatterSliceOffByOne(lines, i) == SubSeq(lines, i, Len(lines))

\* lines.slice(i + 1) for the 0-based index of the 1-based line i
FrontmatterSlice(lines, i) == SubSeq(lines, i + 1, Len(lines))

stripFrontmatter(content) ==
    LET lines == SplitLines(content)
        i == ClosingDelimiter(lines, 2)
    IN  IF Trim(lines[1]) # Dashes THEN content
        ELSE IF i # 0 THEN JoinLines(FrontmatterSlice(lines, i))
        ELSE content

----------------------------------------------------------------------------
\* Character classes of the regular expressions

UpperLetters == <<"A", "B", "C", "D", "E", "F", "G", "H", "I", "J", "K", "L", "M",
                  "N", "O", "P", "Q", "R", "S", "T", "U", "V", "W", "X", "Y", "Z">>
LowerLetters == <<"a", "b", "c", "d", "e", "f", "g", "h", "i", "j", "k", "l", "m",
                  "n", "o", "p", "q", "r", "s", "t", "u", "v", "w", "x", "y", "z">>
Digits == {"0", "1", "2", "3", "4", "5", "6", "7", "8", "9"}

IsUpper(c) == \E i \in 1..Len(UpperLetters) : UpperLetters[i] = c
IsLetter(c) == IsUpper(c) \/ \E i \in 1..Len(LowerLetters) : LowerLetters[i] = c

\* String.prototype.toLowerCase
LowerChar(c) ==
    IF IsUpper(c) THEN LowerLetters[CHOOSE i \in 1..Len(UpperLetters) : UpperLetters[i] = c] ELSE c
ToLowerCase(s) == [i \in 1..Len(s) |-> LowerChar(s[i])]

\* s.indexOf(p, from) for a string p: 0-based, -1 when absent
IndexOfFrom(s, p, from) ==
    LET hits == {i \in from..(Len(s) - Len(p)) : SubSeq(s, i + 1, i + Len(p)) = p}
    IN  IF hits = {} THEN -1 ELSE CHOOSE i \in hits : \A j \in hits : i <= j

IndexOf(s, p) == IndexOfFrom(s, p, 0)

\* #
IsHash(c) == c = "#"

\* [^\s/>]
IsTagNameChar(c) == ~IsSpace(c) /\ c # "/" /\ c # ">"

\* [A-Za-z0-9:_-]
IsAttrNameChar(c) == IsLetter(c) \/ c \in Digits \/ c \in {":", "_", "-"}

\* membership of a character in a regex character class
InClass(c, class) ==
    CASE class = "\\s" -> IsSpace(c)
      [] class = "#" -> IsHash(c)
      [] class = "[^\\s/>]" -> IsTagNameChar(c)
      [] class = "[A-Za-z0-9:_-]" -> IsAttrNameChar(c)
      [] class = "\\S" -> ~IsSpace(c)
      [] class = "/" -> c = "/"
      [] class = ">" -> c = ">"
      [] class = "\\d" -> c \in Digits
      [] class = "[a-zA-Z0-9+.-]" -> IsLetter(c) \/ c \in Digits \/ c \in {"+", ".", "-"}

\* the length of the longest prefix of s whose characters are all in the class
RunLength(s, class) ==
    LET stops == {i \in 1..Len(s) : ~InClass(s[i], class)}
    IN  IF stops = {} THEN Len(s) ELSE (CHOOSE i \in stops : \A j \in stops : i <= j) - 1

----------------------------------------------------------------------------
\* node:path, posix flavour, on strings

RECURSIVE SplitBy(_, _)
SplitBy(s, c) ==
    LET i == IndexOfChar(s, c)
    IN  IF i = -1 THEN <<s>> ELSE <<SubSeq(s, 1, i)>> \o SplitBy(Drop(s, i + 1), c)

RECURSIVE JoinBy(_, _)
JoinBy(parts, c) ==
    IF parts = <<>> THEN <<>>
    ELSE IF Len(parts) = 1 THEN parts[1]
    ELSE parts[1] \o <<c>> \o JoinBy(Tail(parts), c)

Dot == <<".">>
DotDot == <<".", ".">>

\* normalizeString: "." and empty segments are dropped, ".." removes the
\* segment before it; above the start it is kept on a relative path
RECURSIVE NormalizeSegments(_, _, _)
NormalizeSegments(done, segs, allowAboveRoot) ==
    IF segs = <<>> THEN done
    ELSE LET seg == Head(segs)
             rest == Tail(segs)
         IN  IF seg = <<>> \/ seg = Dot THEN NormalizeSegments(done, rest, allowAboveRoot)
             ELSE IF seg = DotDot
                  THEN IF done # <<>> /\ done[Len(done)] # DotDot
                       THEN NormalizeSegments(SubSeq(done, 1, Len(done) - 1), rest, allowAboveRoot)
                       ELSE IF allowAboveRoot
                            THEN NormalizeSegments(Append(done, seg), rest, allowAboveRoot)
                            ELSE NormalizeSegments(done, rest, allowAboveRoot)
             ELSE NormalizeSegments(Append(done, seg), rest, allowAboveRoot)

\* path.posix.normalize
PosixNormalize(p) ==
    IF p = <<>> THEN Dot
    ELSE LET isAbsolute == Head(p) = "/"
             trailingSeparator == p[Len(p)] = "/"
             body == JoinBy(NormalizeSegments(<<>>, SplitBy(p, "/"), ~isAbsolute), "/")
         IN  IF body = <<>>
             THEN (IF isAbsolute THEN <<"/">> ELSE IF trailingSeparator THEN <<".", "/">> ELSE Dot)
             ELSE (IF isAbsolute THEN <<"/">> ELSE <<>>) \o body
                  \o (IF trailingSeparator THEN <<"/">> ELSE <<>>)

\* path.posix.join of two arguments
PosixJoin(a, b) ==
    IF a = <<>> /\ b = <<>> THEN Dot
    ELSE IF a = <<>> THEN PosixNormalize(b)
    ELSE IF b = <<>> THEN PosixNormalize(a)
    ELSE PosixNormalize(a \o <<"/">> \o b)

\* path.posix.dirname
PosixDirname(p) ==
    IF p = <<>> THEN Dot
    ELSE LET hasRoot == Head(p) = "/"
             \* 1-based positions i >= 2 of a "/" that has a non-"/" character after it
             ends == {i \in 2..Len(p) : p[i] = "/" /\ \E j \in (i + 1)..Len(p) : p[j] # "/"}
         IN  IF ends = {} THEN (IF hasRoot THEN <<"/">> ELSE Dot)
             ELSE LET end == CHOOSE i \in ends : \A j \in ends : i >= j
                  IN  IF hasRoot /\ end = 2 THEN <<"/", "/">> ELSE SubSeq(p, 1, end - 1)

----------------------------------------------------------------------------
\* Doc path mapping and docPathToUrl

ReadmeMd == <<"r", "e", "a", "d", "m", "e", ".", "m", "d">>
IndexMd == <<"i", "n", "d", "e", "x", ".", "m", "d">>
IndexHtml == <<"i", "n", "d", "e", "x", ".", "h", "t", "m", "l">>
DotMd == <<".", "m", "d">>
DotHtml == <<".", "h", "t", "m", "l">>

IsNamedExactOnly(lowerPath, name) == lowerPath = name

\* lowerPath === name || lowerPath.endsWith('/' + name)
IsNamed(lowerPath, name) == lowerPath = name \/ EndsWith(lowerPath, <<"/">> \o name)

\* str.replace(/^\//, '')
StripLeadingSlash(s) == IF s # <<>> /\ Head(s) = "/" THEN Tail(s) ELSE s

mapDocPath(docPath) ==
    LET lowerPath == ToLowerCase(docPath)
    IN  IF IsNamed(lowerPath, ReadmeMd) THEN PosixJoin(PosixDirname(docPath), IndexHtml)
        ELSE IF IsNamed(lowerPath, IndexMd) THEN PosixJoin(PosixDirname(docPath), IndexHtml)
        ELSE IF EndsWith(lowerPath, DotMd)
             THEN SubSeq(docPath, 1, Len(docPath) - Len(DotMd)) \o DotHtml
        ELSE docPath

\* baseUrl.endsWith('/') ? baseUrl : `${baseUrl}/`
NormalizedBase(baseUrl) == IF EndsWith(baseUrl, <<"/">>) THEN baseUrl ELSE baseUrl \o <<"/">>

\* relativePath.replace(/\\/g, '/')
BackslashesToSlashes(s) == [i \in 1..Len(s) |-> IF s[i] = "\\" THEN "/" ELSE s[i]]

docPathToUrl(relativePath, baseUrl) ==
    LET posixPath == StripLeadingSlash(BackslashesToSlashes(relativePath))
        mapped == mapDocPath(posixPath)
    IN  NormalizedBase(baseUrl) \o StripLeadingSlash(mapped)

----------------------------------------------------------------------------
\* Metadata extractor: title


\* the rest of a heading line matches \s*#*\s*$
IsClosingSequence(t) ==
    LET a == Drop(t, RunLength(t, "\\s"))
        b == Drop(a, RunLength(a, "#"))
    IN  Drop(b, RunLength(b, "\\s")) = <<>>

\* line.match(/^#\s+(.+?)\s*#*\s*$/): <<>> when the line does not match, else
\* <<match[1]>>. \s+ takes all the white space it can and gives one character
\* back only when nothing follows it; (.+?) takes the fewest characters that
\* leave a closing sequence.
H1Match(line) ==
    IF line = <<>> \/ Head(line) # "#" THEN <<>>
    ELSE LET after == Tail(line)
             w == RunLength(after, "\\s")
             r == Drop(after, w)
         IN  IF w = 0 THEN <<>>
             ELSE IF r = <<>> THEN (IF w >= 2 THEN << <<after[w]>> >> ELSE <<>>)
             ELSE LET ks == {k \in 1..Len(r) : IsClosingSequence(Drop(r, k))}
                  IN  <<SubSeq(r, 1, CHOOSE k \in ks : \A j \in ks : k <= j)>>

SkipsLineNever(state) == FALSE

\* if (state.inFence) continue
SkipsLine(state) == state.inFence

RECURSIVE ScanTitle(_, _, _)
ScanTitle(lines, state, fallback) ==
    IF lines = <<>> THEN fallback
    ELSE LET next == updateFenceState(Head(lines), state)
             match == H1Match(Head(lines))
         IN  IF SkipsLine(next) THEN ScanTitle(Tail(lines), next, fallback)
             ELSE IF match # <<>> THEN Trim(match[1])
             ELSE ScanTitle(Tail(lines), next, fallback)

extractTitle(content, fallback) == ScanTitle(SplitLines(content), NotFenced, fallback)

----------------------------------------------------------------------------
\* Directive/component rewriter

INLINE_COMPONENT_TAGS ==
    { <<"b", "a", "d", "g", "e">>, <<"c", "l", "o", "u", "d">>, <<"j", "o", "u", "r", "n", "e", "y">>, <<"s", "e", "e">>, <<"s", "i", "n", "c", "e">>, <<"t", "o", "d", "o">> }

DROP_COMPONENT_TAGS ==
    { <<"b", "l", "o", "c", "k">>, <<"b", "r", "o", "w", "s", "e", "r", "s", "h", "o", "t">>, <<"c", "o", "d", "e", "p", "l", "a", "c", "e", "h", "o", "l", "d", "e", "r">>, <<"c", "o", "l", "u", "m", "n">>,
      <<"c", "o", "l", "u", "m", "n", "s">>, <<"t", "a", "b">>, <<"t", "a", "b", "s">> }

STANDARD_HTML_TAGS ==
    { <<"a">>, <<"a", "b", "b", "r">>, <<"a", "d", "d", "r", "e", "s", "s">>, <<"a", "r", "t", "i", "c", "l", "e">>, <<"a", "s", "i", "d", "e">>, <<"a", "u", "d", "i", "o">>, <<"b">>,
      <<"b", "l", "o", "c", "k", "q", "u", "o", "t", "e">>, <<"b", "r">>, <<"b", "u", "t", "t", "o", "n">>, <<"c", "a", "p", "t", "i", "o", "n">>, <<"c", "i", "t", "e">>, <<"c", "o", "d", "e">>,
      <<"c", "o", "l">>, <<"c", "o", "l", "g", "r", "o", "u", "p">>, <<"d", "a", "t", "a">>, <<"d", "a", "t", "a", "l", "i", "s", "t">>, <<"d", "d">>, <<"d", "e", "l">>,
      <<"d", "e", "t", "a", "i", "l", "s">>, <<"d", "f", "n">>, <<"d", "i", "v">>, <<"d", "l">>, <<"d", "t">>, <<"e", "m">>, <<"f", "i", "g", "c", "a", "p", "t", "i", "o", "n">>,
      <<"f", "i", "g", "u", "r", "e">>, <<"f", "o", "o", "t", "e", "r">>, <<"f", "o", "r", "m">>, <<"h", "1">>, <<"h", "2">>, <<"h", "3">>, <<"h", "4">>,
      <<"h", "5">>, <<"h", "6">>, <<"h", "e", "a", "d", "e", "r">>, <<"h", "r">>, <<"i">>, <<"i", "m", "g">>, <<"i", "n", "p", "u", "t">>, <<"i", "n", "s">>,
      <<"k", "b", "d">>, <<"l", "a", "b", "e", "l">>, <<"l", "i">>, <<"m", "a", "i", "n">>, <<"m", "a", "r", "k">>, <<"n", "a", "v">>, <<"o", "l">>, <<"p">>,
      <<"p", "r", "e">>, <<"q">>, <<"s">>, <<"s", "a", "m", "p">>, <<"s", "e", "c", "t", "i", "o", "n">>, <<"s", "m", "a", "l", "l">>, <<"s", "p", "a", "n">>,
      <<"s", "t", "r", "o", "n", "g">>, <<"s", "u", "b">>, <<"s", "u", "m", "m", "a", "r", "y">>, <<"s", "u", "p">>, <<"t", "a", "b", "l", "e">>, <<"t", "b", "o", "d", "y">>,
      <<"t", "d">>, <<"t", "e", "x", "t", "a", "r", "e", "a">>, <<"t", "f", "o", "o", "t">>, <<"t", "h">>, <<"t", "h", "e", "a", "d">>, <<"t", "i", "m", "e">>, <<"t", "r">>,
      <<"u">>, <<"u", "l">>, <<"v", "a", "r">> }

CommentOpen == <<"<", "!", "-", "-">>
CommentClose == <<"-", "-", ">">>

\* line.replace(/<!--[\s\S]*?-->/g, '')
RECURSIVE stripHtmlComments(_)
stripHtmlComments(line) ==
    IF line = <<>> THEN <<>>
    ELSE LET close == IndexOfFrom(line, CommentClose, Len(CommentOpen))
         IN  IF StartsWith(line, CommentOpen) /\ close # -1
             THEN stripHtmlComments(Drop(line, close + Len(CommentClose)))
             ELSE <<Head(line)>> \o stripHtmlComments(Tail(line))

NoTag == [len |-> 0, tagName |-> <<>>, attrPart |-> <<>>, isClosing |-> FALSE]

\* COMPONENT_TAG_RE matched at the start of s: /<\/?([A-Za-z][^\s/>]*)(\s[^>]*)?>/.
\* len is the length of the match, 0 when there is none.
TagAt(s) ==
    IF s = <<>> \/ Head(s) # "<" THEN NoTag
    ELSE LET isClosing == Len(s) >= 2 /\ s[2] = "/"
             open == IF isClosing THEN 2 ELSE 1
             fromName == Drop(s, open)
         IN  IF fromName = <<>> \/ ~IsLetter(Head(fromName)) THEN NoTag
             ELSE LET n == RunLength(fromName, "[^\\s/>]")
                      afterName == Drop(fromName, n)
                      gt == IndexOfChar(afterName, ">")
                  IN  IF afterName = <<>> THEN NoTag
                      ELSE IF Head(afterName) = ">"
                           THEN [len |-> open + n + 1, tagName |-> SubSeq(fromName, 1, n),
                                 attrPart |-> <<>>, isClosing |-> isClosing]
                      ELSE IF IsSpace(Head(afterName)) /\ gt # -1
                           THEN [len |-> open + n + gt + 1, tagName |-> SubSeq(fromName, 1, n),
                                 attrPart |-> SubSeq(afterName, 1, gt), isClosing |-> isClosing]
                      ELSE NoTag

Quote == "\""

\* parseAttributes: the name="value" pairs of raw in scan order, names in lower
\* case; a later pair of the same name overwrites an earlier one
RECURSIVE parseAttributes(_)
parseAttributes(raw) ==
    IF raw = <<>> THEN <<>>
    ELSE IF ~IsAttrNameChar(Head(raw)) THEN parseAttributes(Tail(raw))
    ELSE LET n == RunLength(raw, "[A-Za-z0-9:_-]")
             a == Drop(raw, n)
             eq == Drop(a, RunLength(a, "\\s"))
             b == IF eq = <<>> THEN <<>> ELSE Tail(eq)
             q == Drop(b, RunLength(b, "\\s"))
             v == IF q = <<>> THEN <<>> ELSE Tail(q)
             close == IndexOfChar(v, Quote)
         IN  IF eq # <<>> /\ Head(eq) = "=" /\ q # <<>> /\ Head(q) = Quote /\ close # -1
             THEN << <<ToLowerCase(SubSeq(raw, 1, n)), SubSeq(v, 1, close)>> >>
                  \o parseAttributes(Drop(v, close + 1))
             ELSE parseAttributes(Tail(raw))

HasAttr(attrs, key) == \E i \in 1..Len(attrs) : attrs[i][1] = key

AttrValue(attrs, key) ==
    attrs[CHOOSE i \in 1..Len(attrs) : attrs[i][1] = key /\ \A j \in (i + 1)..Len(attrs) : attrs[j][1] # key][2]

\* attrs.k1 ?? attrs.k2 ?? ... ?? ''
RECURSIVE FirstPresent(_, _)
FirstPresent(attrs, keys) ==
    IF keys = <<>> THEN <<>>
    ELSE IF HasAttr(attrs, Head(keys)) THEN AttrValue(attrs, Head(keys))
    ELSE FirstPresent(attrs, Tail(keys))

NonEmpty(parts) == SelectSeq(parts, LAMBDA p : p # <<>>)

componentText(tagName, attrs) ==
    LET name == ToLowerCase(tagName)
    IN  IF name = <<"s", "i", "n", "c", "e">>
        THEN LET ver == FirstPresent(attrs, << <<"v", "e", "r">>, <<"v", "e", "r", "s", "i", "o", "n">> >>)
                 feature == FirstPresent(attrs, << <<"f", "e", "a", "t", "u", "r", "e">>, <<"t", "e", "x", "t">>, <<"l", "a", "b", "e", "l">> >>)
             IN  IF ver # <<>> /\ feature # <<>> THEN <<"S", "i", "n", "c", "e", " ">> \o ver \o <<":", " ">> \o feature
                 ELSE IF ver # <<>> THEN <<"S", "i", "n", "c", "e", " ">> \o ver
                 ELSE IF feature # <<>> THEN <<"S", "i", "n", "c", "e", ":", " ">> \o feature
                 ELSE <<"S", "i", "n", "c", "e">>
        ELSE IF name = <<"b", "a", "d", "g", "e">> THEN FirstPresent(attrs, << <<"t", "e", "x", "t">>, <<"l", "a", "b", "e", "l">>, <<"t", "i", "t", "l", "e">> >>)
        ELSE IF name = <<"t", "o", "d", "o">>
        THEN LET notes == FirstPresent(attrs, << <<"n", "o", "t", "e", "s">>, <<"t", "e", "x", "t">>, <<"l", "a", "b", "e", "l">> >>)
             IN  IF notes # <<>> THEN <<"T", "O", "D", "O", ":", " ">> \o notes ELSE <<"T", "O", "D", "O">>
        ELSE IF name = <<"j", "o", "u", "r", "n", "e", "y">>
        THEN LET pathValue == FirstPresent(attrs, << <<"p", "a", "t", "h">>, <<"l", "a", "b", "e", "l">>, <<"t", "e", "x", "t">> >>)
             IN  IF pathValue # <<>> THEN <<"J", "o", "u", "r", "n", "e", "y", ":", " ">> \o pathValue ELSE <<"J", "o", "u", "r", "n", "e", "y">>
        ELSE IF name = <<"s", "e", "e">>
        THEN LET label == FirstPresent(attrs, << <<"l", "a", "b", "e", "l">>, <<"t", "e", "x", "t">>, <<"t", "i", "t", "l", "e">> >>)
                 description == FirstPresent(attrs, << <<"d", "e", "s", "c", "r", "i", "p", "t", "i", "o", "n">>, <<"d", "e", "s", "c">> >>)
                 target == FirstPresent(attrs, << <<"p", "a", "t", "h">>, <<"u", "r", "l">> >>)
                 parts == NonEmpty(<<label, description, target>>)
             IN  IF parts = <<>> THEN <<"S", "e", "e">>
                 ELSE IF Len(parts) = 1 THEN parts[1]
                 ELSE IF Len(parts) = 2 THEN parts[1] \o <<" ", "-", " ">> \o parts[2]
                 ELSE parts[1] \o <<" ", "-", " ">> \o parts[2] \o <<" ", "-", " ">> \o parts[3]
        ELSE IF name = <<"c", "l", "o", "u", "d">> THEN <<>>
        ELSE FirstPresent(attrs, << <<"t", "e", "x", "t">>, <<"l", "a", "b", "e", "l">>, <<"t", "i", "t", "l", "e">> >>)

\* the callback of line.replace(COMPONENT_TAG_RE, ...): what replaces the
\* matched tag text
TagReplacement(match, tag) ==
    LET tagName == tag.tagName
        lowerName == ToLowerCase(tagName)
        isSelfClosing == EndsWith(match, <<"/", ">">>)
        attrs == parseAttributes(tag.attrPart)
        text == componentText(tagName, attrs)
    IN  IF lowerName \in STANDARD_HTML_TAGS THEN match
        ELSE IF lowerName \in DROP_COMPONENT_TAGS THEN <<>>
        ELSE IF tag.isClosing THEN <<>>
        ELSE IF \E i \in 1..Len(tagName) : tagName[i] = ":" THEN tagName
        ELSE IF lowerName \in INLINE_COMPONENT_TAGS \/ isSelfClosing
             THEN (IF text # <<>> THEN text ELSE tagName)
        ELSE IF attrs # <<>> THEN <<>>
        ELSE IF IsUpper(Head(tagName)) THEN <<>>
        ELSE tagName

RECURSIVE replaceComponentTags(_)
replaceComponentTags(line) ==
    IF line = <<>> THEN <<>>
    ELSE LET tag == TagAt(line)
         IN  IF tag.len = 0 THEN <<Head(line)>> \o replaceComponentTags(Tail(line))
             ELSE TagReplacement(SubSeq(line, 1, tag.len), tag)
                  \o replaceComponentTags(Drop(line, tag.len))

Colons == <<":", ":", ":">>
Bangs == <<"!", "!", "!">>

\* trimmed.startsWith(':::') || trimmed.startsWith('!!!')
IsDirectiveLine(line) == StartsWith(Trim(line), Colons) \/ StartsWith(Trim(line), Bangs)

RECURSIVE RewriteLines(_, _)
RewriteLines(lines, state) ==
    IF lines = <<>> THEN <<>>
    ELSE LET line == Head(lines)
             next == updateFenceState(line, state)
         IN  IF next.inFence THEN <<line>> \o RewriteLines(Tail(lines), next)
             ELSE IF IsDirectiveLine(line) THEN RewriteLines(Tail(lines), next)
             ELSE <<replaceComponentTags(stripHtmlComments(line))>> \o RewriteLines(Tail(lines), next)

stripVuePressDirectives(content) == JoinLines(RewriteLines(SplitLines(content), NotFenced))

----------------------------------------------------------------------------
\* Link normalizer

\* INLINE_LINK_RE matched at the start of s: /(?<!!)\[([^\]]+)\]\(([^)]+)\)/.
\* prev is the character before s in the line ("" at the start of the line);
\* len is the length of the match, 0 when there is none.
NoLink == [len |-> 0, text |-> <<>>, destination |-> <<>>]

LinkAt(s, prev) ==
    IF s = <<>> \/ Head(s) # "[" \/ prev = "!" THEN NoLink
    ELSE LET t == IndexOfChar(Tail(s), "]")
             afterText == Drop(s, t + 2)
             d == IndexOfChar(Tail(afterText), ")")
         IN  IF t < 1 \/ afterText = <<>> \/ Head(afterText) # "(" \/ d < 1 THEN NoLink
             ELSE [len |-> t + 2 + d + 2, text |-> SubSeq(s, 2, t + 1),
                   destination |-> SubSeq(afterText, 2, d + 1)]

\* /^[a-zA-Z][a-zA-Z0-9+.-]*:/.test(url)
HasSchemeNever(url) == FALSE

HasScheme(url) ==
    /\ url # <<>>
    /\ IsLetter(Head(url))
    /\ LET n == RunLength(Tail(url), "[a-zA-Z0-9+.-]")
       IN  n + 2 <= Len(url) /\ url[n + 2] = ":"

DocsPrefix == <<"/", "d", "o", "c", "s", "/", "5", ".", "x", "/">>

normalizeDocLink(url, currentFilePath, baseUrl) ==
    IF url = <<>> \/ Head(url) = "#" THEN url
    ELSE IF StartsWith(url, <<"/", "/">>) \/ HasScheme(url) THEN url
    ELSE LET hashIndex == IndexOfChar(url, "#")
             hash == IF hashIndex >= 0 THEN Drop(url, hashIndex) ELSE <<>>
             noHash == IF hashIndex >= 0 THEN SubSeq(url, 1, hashIndex) ELSE url
             queryIndex == IndexOfChar(noHash, "?")
             query == IF queryIndex >= 0 THEN Drop(noHash, queryIndex) ELSE <<>>
             noQuery == IF queryIndex >= 0 THEN SubSeq(noHash, 1, queryIndex) ELSE noHash
             isRoot == StartsWith(noQuery, <<"/">>)
             noPrefix == IF StartsWith(noQuery, DocsPrefix) THEN Drop(noQuery, Len(DocsPrefix)) ELSE noQuery
             pathPart == IF isRoot THEN Drop(noPrefix, RunLength(noPrefix, "/")) ELSE noQuery
             resolvedPath == IF isRoot THEN pathPart
                             ELSE PosixNormalize(PosixJoin(PosixDirname(currentFilePath), pathPart))
         IN  IF pathPart = <<>> THEN url
             ELSE NormalizedBase(baseUrl) \o StripLeadingSlash(mapDocPath(resolvedPath)) \o query \o hash

normalizeLinkDestination(rawDestination, currentFilePath, baseUrl) ==
    LET leading == SubSeq(rawDestination, 1, RunLength(rawDestination, "\\s"))
        inner == Trim(rawDestination)
        trailing == Drop(rawDestination, Len(leading) + Len(inner))
        end == IndexOfChar(inner, ">")
        n == RunLength(inner, "\\S")
    IN  IF inner = <<>> THEN rawDestination
        ELSE IF Head(inner) = "<" /\ end # -1
             THEN leading \o <<"<">> \o normalizeDocLink(SubSeq(inner, 2, end), currentFilePath, baseUrl)
                  \o <<">">> \o Drop(inner, end + 1) \o trailing
        ELSE leading \o normalizeDocLink(SubSeq(inner, 1, n), currentFilePath, baseUrl)
             \o Drop(inner, n) \o trailing

\* line.match(/^(\s*\[[^\]]+\]:\s*)(\S+)([\s\S]*)$/): the lengths of match[1]
\* and match[2], both 0 when the line does not match
NoReference == [prefix |-> 0, destination |-> 0]

ReferenceMatch(line) ==
    LET lead == RunLength(line, "\\s")
        fromBracket == Drop(line, lead)
        t == IF fromBracket = <<>> THEN -1 ELSE IndexOfChar(Tail(fromBracket), "]")
        afterLabel == Drop(fromBracket, t + 2)
        gap == IF afterLabel = <<>> THEN 0 ELSE RunLength(Tail(afterLabel), "\\s")
        fromDest == IF afterLabel = <<>> THEN <<>> ELSE Drop(afterLabel, gap + 1)
        n == RunLength(fromDest, "\\S")
    IN  IF fromBracket = <<>> \/ Head(fromBracket) # "[" \/ t < 1
           \/ afterLabel = <<>> \/ Head(afterLabel) # ":" \/ n = 0
        THEN NoReference
        ELSE [prefix |-> Len(line) - Len(fromDest), destination |-> n]

normalizeReferenceDefinition(line, currentFilePath, baseUrl) ==
    LET match == ReferenceMatch(line)
        prefix == SubSeq(line, 1, match.prefix)
        destination == SubSeq(line, match.prefix + 1, match.prefix + match.destination)
        rest == Drop(line, match.prefix + match.destination)
    IN  IF match = NoReference THEN line
        ELSE prefix \o normalizeLinkDestination(destination, currentFilePath, baseUrl) \o rest

\* line.replace(INLINE_LINK_RE, ...) from the character after prev on
RECURSIVE ReplaceInlineLinks(_, _, _, _)
ReplaceInlineLinks(s, prev, currentFilePath, baseUrl) ==
    IF s = <<>> THEN <<>>
    ELSE LET link == LinkAt(s, prev)
         IN  IF link.len = 0
             THEN <<Head(s)>> \o ReplaceInlineLinks(Tail(s), Head(s), currentFilePath, baseUrl)
             ELSE <<"[">> \o link.text \o <<"]", "(">>
                  \o normalizeLinkDestination(link.destination, currentFilePath, baseUrl) \o <<")">>
                  \o ReplaceInlineLinks(Drop(s, link.len), ")", currentFilePath, baseUrl)

NormalizeLine(line, currentFilePath, baseUrl) ==
    normalizeReferenceDefinition(ReplaceInlineLinks(line, "", currentFilePath, baseUrl),
                                 currentFilePath, baseUrl)

RECURSIVE NormalizeLines(_, _, _, _)
NormalizeLines(lines, state, currentFilePath, baseUrl) ==
    IF lines = <<>> THEN <<>>
    ELSE LET line == Head(lines)
             next == updateFenceState(line, state)
         IN  <<IF next.inFence THEN line ELSE NormalizeLine(line, currentFilePath, baseUrl)>>
             \o NormalizeLines(Tail(lines), next, currentFilePath, baseUrl)

normalizeLinks(content, currentFilePath, baseUrl) ==
    JoinLines(NormalizeLines(SplitLines(content), NotFenced, currentFilePath, baseUrl))

----------------------------------------------------------------------------
\* Metadata extractor: summary

\* HEADING_RE.test(trimmed): /^#{1,6}\s+/
IsHeadingLine(trimmed) ==
    LET h == RunLength(trimmed, "#")
    IN  h >= 1 /\ h <= 6 /\ h < Len(trimmed) /\ IsSpace(trimmed[h + 1])

\* LIST_RE.test(trimmed): /^\s*([-*+]|\d+\.)\s+/
IsListLine(trimmed) ==
    LET s == Drop(trimmed, RunLength(trimmed, "\\s"))
        d == RunLength(s, "\\d")
    IN  \/ Len(s) >= 2 /\ s[1] \in {"-", "*", "+"} /\ IsSpace(s[2])
        \/ d >= 1 /\ Len(s) >= d + 2 /\ s[d + 1] = "." /\ IsSpace(s[d + 2])

\* HTML_TAG_ONLY_RE.test(trimmed): /^<[^>]+>$/
IsHtmlTagOnly(trimmed) ==
    Len(trimmed) >= 3 /\ Head(trimmed) = "<" /\ IndexOfChar(trimmed, ">") = Len(trimmed) - 1

\* the bracket-and-parenthesis pattern at the start of s, /\[([^\]]*)\]\([^)]*\)/
\* with at least minText characters between the brackets: len 0 when absent
NoBracket == [len |-> 0, text |-> <<>>]

BracketAt(s, minText) ==
    IF s = <<>> \/ Head(s) # "[" THEN NoBracket
    ELSE LET t == IndexOfChar(Tail(s), "]")
             afterText == Drop(s, t + 2)
             d == IndexOfChar(afterText, ")")
         IN  IF t < minText \/ afterText = <<>> \/ Head(afterText) # "(" \/ d = -1 THEN NoBracket
             ELSE [len |-> t + 2 + d + 1, text |-> SubSeq(s, 2, t + 1)]

\* cleaned.replace(/!\[([^\]]*)\]\([^)]*\)/g, '$1')
RECURSIVE ReplaceImages(_)
ReplaceImages(s) ==
    IF s = <<>> THEN <<>>
    ELSE LET m == BracketAt(Tail(s), 0)
         IN  IF Head(s) = "!" /\ m.len > 0
             THEN m.text \o ReplaceImages(Drop(s, 1 + m.len))
             ELSE <<Head(s)>> \o ReplaceImages(Tail(s))

\* cleaned.replace(/\[([^\]]+)\]\([^)]*\)/g, '$1')
RECURSIVE ReplaceLinks(_)
ReplaceLinks(s) ==
    IF s = <<>> THEN <<>>
    ELSE LET m == BracketAt(s, 1)
         IN  IF m.len > 0 THEN m.text \o ReplaceLinks(Drop(s, m.len))
             ELSE <<Head(s)>> \o ReplaceLinks(Tail(s))

\* cleaned.replace(/<[^>]+>/g, '')
RECURSIVE RemoveTags(_)
RemoveTags(s) ==
    IF s = <<>> THEN <<>>
    ELSE LET gt == IndexOfChar(s, ">")
         IN  IF Head(s) = "<" /\ gt >= 2 THEN RemoveTags(Drop(s, gt + 1))
             ELSE <<Head(s)>> \o RemoveTags(Tail(s))

\* cleaned.replace(/`([^`]*)`/g, '$1')
RECURSIVE RemoveCodeMarkers(_)
RemoveCodeMarkers(s) ==
    IF s = <<>> THEN <<>>
    ELSE LET close == IndexOfChar(Tail(s), BQ)
         IN  IF Head(s) = BQ /\ close # -1
             THEN SubSeq(s, 2, close + 1) \o RemoveCodeMarkers(Drop(s, close + 2))
             ELSE <<Head(s)>> \o RemoveCodeMarkers(Tail(s))

\* cleaned.replace(/^>+\s*/g, '')
RemoveQuoteMarkers(s) ==
    LET q == RunLength(s, ">")
        rest == Drop(s, q)
    IN  IF q = 0 THEN s ELSE Drop(rest, RunLength(rest, "\\s"))

\* cleaned.replace(/\s+/g, ' ')
RECURSIVE CollapseWhitespace(_)
CollapseWhitespace(s) ==
    IF s = <<>> THEN <<>>
    ELSE LET w == RunLength(s, "\\s")
         IN  IF w > 0 THEN <<" ">> \o CollapseWhitespace(Drop(s, w))
             ELSE <<Head(s)>> \o CollapseWhitespace(Tail(s))

cleanSummaryText(text) ==
    Trim(CollapseWhitespace(RemoveQuoteMarkers(RemoveCodeMarkers(RemoveTags(
        ReplaceLinks(ReplaceImages(text)))))))

\* the loop of extractSummary: the trimmed lines collected into the paragraph
RECURSIVE CollectParagraph(_, _, _)
CollectParagraph(lines, state, paragraph) ==
    IF lines = <<>> THEN paragraph
    ELSE LET line == Head(lines)
             next == updateFenceState(line, state)
             trimmed == Trim(line)
         IN  IF next.inFence THEN CollectParagraph(Tail(lines), next, paragraph)
             ELSE IF trimmed = <<>>
                  THEN (IF paragraph # <<>> THEN paragraph
                        ELSE CollectParagraph(Tail(lines), next, paragraph))
             ELSE IF IsHeadingLine(trimmed) \/ IsListLine(trimmed) \/ IsHtmlTagOnly(trimmed)
                  THEN CollectParagraph(Tail(lines), next, paragraph)
             ELSE CollectParagraph(Tail(lines), next, Append(paragraph, trimmed))

extractSummary(content) ==
    cleanSummaryText(JoinBy(CollectParagraph(SplitLines(content), NotFenced, <<>>), " "))

----------------------------------------------------------------------------
\* node:path on absolute posix paths, and String.prototype.localeCompare

PathSep == "/"

\* process.cwd()
Cwd == <<"/", "w">>

Segments(p) == SelectSeq(SplitBy(p, PathSep), LAMBDA seg : seg # <<>>)

\* path.resolve(p)
PathResolve(p) ==
    LET abs == IF p # <<>> /\ Head(p) = PathSep THEN p ELSE Cwd \o <<PathSep>> \o p
    IN  <<PathSep>> \o JoinBy(NormalizeSegments(<<>>, SplitBy(abs, PathSep), FALSE), PathSep)

\* path.resolve(a, b)
PathResolve2(a, b) ==
    IF b # <<>> /\ Head(b) = PathSep THEN PathResolve(b) ELSE PathResolve(a \o <<PathSep>> \o b)

\* path.relative(from, to)
PathRelative(from, to) ==
    LET f == Segments(PathResolve(from))
        t == Segments(PathResolve(to))
        same == {n \in 0..Len(f) : n <= Len(t) /\ SubSeq(f, 1, n) = SubSeq(t, 1, n)}
        common == CHOOSE n \in same : \A m \in same : m <= n
    IN  JoinBy([i \in 1..(Len(f) - common) |-> DotDot] \o SubSeq(t, common + 1, Len(t)), PathSep)

\* path.basename(p)
PathBasename(p) ==
    LET segs == Segments(p) IN IF segs = <<>> THEN <<>> ELSE segs[Len(segs)]

\* path.extname(p)
PathExtname(p) ==
    LET base == PathBasename(p)
        dots == {i \in 2..Len(base) : base[i] = "."}
    IN  IF dots = {} \/ base = DotDot THEN <<>>
        ELSE Drop(base, (CHOOSE i \in dots : \A j \in dots : j <= i) - 1)

\* path.basename(p, ext)
PathBasenameWithout(p, ext) ==
    LET base == PathBasename(p)
    IN  IF ext # <<>> /\ ext # base /\ EndsWith(base, ext)
        THEN SubSeq(base, 1, Len(base) - Len(ext)) ELSE base

toPosixPath(filePath) == JoinBy(SplitBy(filePath, PathSep), "/")

\* the collation order of the characters of the modelled paths: punctuation,
\* then digits, then letters
CollationOrder == <<".", "/", "0", "1", "2", "3", "4", "5", "6", "7", "8", "9", "a", "b", "c", "d", "e", "f", "g", "h", "i", "j", "k", "l", "m", "n", "o", "p", "q", "r", "s", "t", "u", "v", "w", "x", "y", "z">>

CollationRank(c) == CHOOSE i \in 1..Len(CollationOrder) : CollationOrder[i] = c

\* a.localeCompare(b): negative, zero or positive
RECURSIVE localeCompare(_, _)
localeCompare(a, b) ==
    IF a = <<>> /\ b = <<>> THEN 0
    ELSE IF a = <<>> THEN -1
    ELSE IF b = <<>> THEN 1
    ELSE IF Head(a) = Head(b) THEN localeCompare(Tail(a), Tail(b))
    ELSE IF CollationRank(Head(a)) < CollationRank(Head(b)) THEN -1 ELSE 1

\* the elements of a set of strings, sorted with localeCompare
RECURSIVE SortByLocale(_)
SortByLocale(S) ==
    IF S = {} THEN <<>>
    ELSE LET first == CHOOSE x \in S : \A y \in S : localeCompare(x, y) <= 0
         IN  <<first>> \o SortByLocale(S \ {first})

\* collectMarkdownFiles(rootDir), on a disk that holds the files `paths`: the .md
\* files of the directory in name order, then those of its directories, in
\* name order
RECURSIVE collectMarkdownFiles(_, _)
collectMarkdownFiles(rootDir, paths) ==
    LET inside == {p \in paths : StartsWith(p, rootDir \o <<PathSep>>)}
        names == {Drop(p, Len(rootDir) + 1) : p \in inside}
        mdFiles == {n \in names : IndexOfChar(n, PathSep) = -1 /\ EndsWith(ToLowerCase(n), DotMd)}
        dirs == {SubSeq(n, 1, IndexOfChar(n, PathSep)) : n \in {m \in names : IndexOfChar(m, PathSep) > 0}}
        sortedFiles == SortByLocale(mdFiles)
        sortedDirs == SortByLocale(dirs)
    IN  [i \in 1..Len(sortedFiles) |-> PosixJoin(rootDir, sortedFiles[i])]
        \o Concat([i \in 1..Len(sortedDirs) |-> collectMarkdownFiles(PosixJoin(rootDir, sortedDirs[i]), paths)])

----------------------------------------------------------------------------
\* Include expander on text: expandIncludeDirectives as a function from the
\* content and the files on disk to the expanded content or a failure

IncludeOpen == <<"!", "!", "!", "i", "n", "c", "l", "u", "d", "e", "(">>
IncludeClose == <<")", "!", "!", "!">>

\* INCLUDE_DIRECTIVE_RE matched at the start of s: /!!!include\(([^)]+)\)!!!/
NoDirective == [len |-> 0, includePath |-> <<>>]

IncludeDirectiveAt(s) ==
    IF ~StartsWith(s, IncludeOpen) THEN NoDirective
    ELSE LET inside == Drop(s, Len(IncludeOpen))
             n == IndexOfChar(inside, ")")
         IN  IF n < 1 \/ ~StartsWith(Drop(inside, n), IncludeClose) THEN NoDirective
             ELSE [len |-> Len(IncludeOpen) + n + Len(IncludeClose),
                   includePath |-> Trim(SubSeq(inside, 1, n))]

Failure(error) == [ok |-> FALSE, error |-> error, text |-> <<>>]
Success(text) == [ok |-> TRUE, error |-> "", text |-> text]

resolveIncludePath(includePath, repoRoot, currentFilePath) ==
    LET resolvedPath ==
            IF StartsWith(includePath, <<"/">>)
            THEN PosixJoin(repoRoot, Drop(includePath, RunLength(includePath, "/")))
            ELSE IF StartsWith(includePath, Dot)
            THEN PathResolve2(PosixDirname(currentFilePath), includePath)
            ELSE PosixJoin(repoRoot, includePath)
        normalizedRoot == PathResolve(repoRoot)
        normalizedPath == PathResolve(resolvedPath)
    IN  IF normalizedPath # normalizedRoot /\ ~StartsWith(normalizedPath, normalizedRoot \o <<PathSep>>)
        THEN Failure("Include path escapes repo root")
        ELSE Success(normalizedPath)

\* expand(input, filePath, depth, stack) and its loop over the matches, from
\* the text s that is left of the input on
RECURSIVE expand(_, _, _, _, _, _, _)
RECURSIVE ExpandMatches(_, _, _, _, _, _, _)
ExpandMatches(s, filePath, depth, stk, repoRoot, max, onDisk) ==
    IF s = <<>> THEN Success(<<>>)
    ELSE LET match == IncludeDirectiveAt(s)
             literal == ExpandMatches(Tail(s), filePath, depth, stk, repoRoot, max, onDisk)
             resolved == resolveIncludePath(match.includePath, repoRoot, filePath)
             expanded == expand(onDisk[resolved.text], resolved.text, depth + 1,
                                stk \cup {resolved.text}, repoRoot, max, onDisk)
             rest == ExpandMatches(Drop(s, match.len), filePath, depth, stk, repoRoot, max, onDisk)
         IN  IF match.len = 0
             THEN (IF literal.ok THEN Success(<<Head(s)>> \o literal.text) ELSE literal)
             ELSE IF ~resolved.ok THEN resolved
             ELSE IF resolved.text \in stk THEN Failure("Include cycle detected")
             ELSE IF resolved.text \notin DOMAIN onDisk THEN Failure("ENOENT")
             ELSE IF ~expanded.ok THEN expanded
             ELSE IF rest.ok THEN Success(expanded.text \o rest.text) ELSE rest

expand(content, filePath, depth, stk, repoRoot, max, onDisk) ==
    IF depth > max THEN Failure("Include depth exceeded")
    ELSE ExpandMatches(content, filePath, depth, stk, repoRoot, max, onDisk)

expandIncludeDirectives(content, repoRoot, currentFilePath, max, onDisk) ==
    expand(content, currentFilePath, 0, {}, PathResolve(repoRoot), max, onDisk)

----------------------------------------------------------------------------
\* Idle values of the parts of the state a specification does not use

TextIdle == pc = "idle" /\ input = <<>> /\ output = <<>>

ExpandIdle ==
    /\ earlier = <<>>
    /\ maxDepth = 0 /\ disk = <<>> /\ frames = <<>> /\ stack = {}
    /\ cache = {} /\ reads = <<>> /\ outcome = "idle"

BuildIdle ==
    /\ bpc = "idle" /\ config = <<>> /\ tree = <<>> /\ docsRoot = <<>> /\ files = <<>>
    /\ meta = <<>> /\ cursor = 0 /\ pageChunks = <<>> /\ indexGroups = <<>>
    /\ written = <<>> /\ result = <<>>

----------------------------------------------------------------------------
\* Include expander: expandIncludeDirectives and resolveIncludePath.
\*
\* A path is the sequence of its segments (the root directory "/" is <<>>).
\* An include path, the text between "!!!include(" and ")!!!", is a record:
\* lead is TRUE when it starts with "/", segs are its segments. A content is
\* the sequence of its items in order: the text between directives (kind
\* "text", segs holds the text) and the directives (kind "inc").

TextItem(t) == [kind |-> "text", lead |-> FALSE, segs |-> <<t>>]
IncItem(lead, segs) == [kind |-> "inc", lead |-> lead, segs |-> segs]

\* path.normalize on segments: "." is dropped, ".." removes the segment before
\* it and is dropped at the root of an absolute path
RECURSIVE NormalizeOnto(_, _)
NormalizeOnto(done, segs) ==
    IF segs = <<>> THEN done
    ELSE IF Head(segs) = "." THEN NormalizeOnto(done, Tail(segs))
    ELSE IF Head(segs) = ".."
         THEN NormalizeOnto(IF done = <<>> THEN done ELSE SubSeq(done, 1, Len(done) - 1), Tail(segs))
    ELSE NormalizeOnto(Append(done, Head(segs)), Tail(segs))

\* path.join(base, rel) and path.resolve(base, rel) for an absolute base
PathJoin(base, segs) == NormalizeOnto(<<>>, base \o segs)

\* path.dirname of an absolute file path
PathDirname(p) == IF p = <<>> THEN <<>> ELSE SubSeq(p, 1, Len(p) - 1)

\* includePath.startsWith('.'): no leading "/" and a first segment starting with a dot
StartsWithDot(inc) == ~inc.lead /\ inc.segs # <<>> /\ Head(inc.segs) \in {".", ".."}

\* normalizedPath.startsWith(`${normalizedRoot}${path.sep}`)
StartsWithRootSep(p, root) == Len(p) > Len(root) /\ SubSeq(p, 1, Len(root)) = root

EscapesRootUnchecked(p, root) == FALSE

\* the condition of the throw in resolveIncludePath
EscapesRoot(p, root) == p # root /\ ~StartsWithRootSep(p, root)

\* the path resolveIncludePath computes before the check
ResolvedPath(inc, root, currentFilePath) ==
    IF inc.lead THEN PathJoin(root, inc.segs)
    ELSE IF StartsWithDot(inc) THEN PathJoin(PathDirname(currentFilePath), inc.segs)
    ELSE PathJoin(root, inc.segs)

StackHasNever(stk, p) == FALSE

CacheHasNever(cached, p) == FALSE

\* cache.get(resolvedPath) !== undefined
CacheHas(cached, p) == p \in cached

\* stack.has(resolvedPath)
StackHas(stk, p) == p \in stk

DepthCheckOffByOne(depth, max) == depth > max + 1

\* depth > maxDepth
DepthExceeds(depth, max) == depth > max

IsInc(item) == item.kind = "inc"

\* input.slice(lastIndex, matchIndex): the text before the next directive
RECURSIVE TextBefore(_)
TextBefore(items) ==
    IF items = <<>> \/ IsInc(Head(items)) THEN <<>>
    ELSE Head(items).segs \o TextBefore(Tail(items))

\* the items from the next directive on
RECURSIVE FromDirective(_)
FromDirective(items) ==
    IF items = <<>> \/ IsInc(Head(items)) THEN items ELSE FromDirective(Tail(items))

\* The file system of the expansion
RepoRoot == <<"r">>
F0 == <<"r", "f0">>
F1 == <<"r", "d", "f1">>
F2 == <<"r", "d", "f2">>
F3 == <<"r", "f3">>
RepoFiles == {F0, F1, F2, F3}
OutsideFiles == {<<"o">>, <<"f3">>}
FilePaths == RepoFiles \cup OutsideFiles

IncludePool ==
    { IncItem(TRUE, <<"f0">>),                 \* /f0
      IncItem(FALSE, <<"d", "f1">>),           \* d/f1
      IncItem(FALSE, <<"d", "f2">>),           \* d/f2
      IncItem(FALSE, <<".", "f2">>),           \* ./f2
      IncItem(FALSE, <<"..", "f3">>),          \* ../f3
      IncItem(TRUE, <<"..", "o">>),            \* /../o
      IncItem(FALSE, <<"d", "..", "..", "o">>),\* d/../../o
      IncItem(FALSE, <<"..", "r", "f0">>),     \* ../r/f0
      IncItem(FALSE, <<".">>) }                \* .

ContentPool ==
    {<<TextItem("x")>>}
    \cup {<<TextItem("x"), i, TextItem("y")>> : i \in IncludePool}
    \cup {<<i, i>> : i \in IncludePool}
    \cup {<<i, IncItem(FALSE, <<"d", "f2">>)>> : i \in IncludePool}

\* a file whose content no read has observed yet
Unread == <<[kind |-> "unread", lead |-> FALSE, segs |-> <<>>]>>

\* maxDepth when the option is absent
DefaultMaxDepth == 5
MaxConfiguredDepth == 3

Frame(path, items) == [path |-> path, rest |-> items, acc |-> <<>>, entered |-> FALSE]

Top == frames[Len(frames)]
Depth == Len(frames) - 1

InitExpand ==
    /\ earlier = <<>>
    /\ maxDepth \in (0..MaxConfiguredDepth) \cup {DefaultMaxDepth}
    /\ \E start \in RepoFiles, content \in ContentPool :
          /\ disk = [p \in FilePaths |-> IF p = start THEN content ELSE Unread]
          /\ frames = <<Frame(start, content)>>
    /\ stack = {}
    /\ cache = {}
    /\ reads = <<>>
    /\ outcome = "running"
    /\ TextIdle /\ BuildIdle

ReplaceTop(f) == [frames EXCEPT ![Len(frames)] = f]

\* expand() is entered: the depth check
Enter ==
    /\ outcome = "running"
    /\ ~Top.entered
    /\ IF DepthExceeds(Depth, maxDepth)
       THEN outcome' = "DepthExceeded" /\ UNCHANGED frames
       ELSE frames' = ReplaceTop([Top EXCEPT !.entered = TRUE]) /\ UNCHANGED outcome
    /\ UNCHANGED <<earlier, maxDepth, disk, stack, cache, reads, textVars, buildVars>>

NextDirective == Head(FromDirective(Top.rest))
NextResolved == ResolvedPath(NextDirective, RepoRoot, Top.path)
AtDirective == outcome = "running" /\ Top.entered /\ FromDirective(Top.rest) # <<>>

\* the frame of the caller once the text before the directive is appended
\* and the directive is consumed
Consumed == [Top EXCEPT !.acc = Top.acc \o TextBefore(Top.rest),
                        !.rest = Tail(FromDirective(Top.rest))]

\* resolveIncludePath throws
ThrowPathEscape ==
    /\ AtDirective
    /\ EscapesRoot(NextResolved, RepoRoot)
    /\ outcome' = "PathEscape"
    /\ UNCHANGED <<earlier, maxDepth, disk, frames, stack, cache, reads, textVars, buildVars>>

ThrowCycle ==
    /\ AtDirective
    /\ ~EscapesRoot(NextResolved, RepoRoot)
    /\ StackHas(stack, NextResolved)
    /\ outcome' = "IncludeCycle"
    /\ UNCHANGED <<earlier, maxDepth, disk, frames, stack, cache, reads, textVars, buildVars>>

CanInclude ==
    /\ AtDirective
    /\ ~EscapesRoot(NextResolved, RepoRoot)
    /\ ~StackHas(stack, NextResolved)

\* cache.get misses and fs.readFile rejects: no such file, or a directory
ReadFails ==
    /\ CanInclude
    /\ ~CacheHas(cache, NextResolved)
    /\ NextResolved \notin FilePaths
    /\ reads' = Append(reads, NextResolved)
    /\ outcome' = "ReadError"
    /\ UNCHANGED <<earlier, maxDepth, disk, frames, stack, cache, textVars, buildVars>>

\* cache.get misses, fs.readFile resolves, and expand() is called on the content
ReadAndRecurse ==
    /\ CanInclude
    /\ ~CacheHas(cache, NextResolved)
    /\ NextResolved \in FilePaths
    /\ \E content \in ContentPool :
          /\ disk[NextResolved] \in {Unread, content}
          /\ disk' = [disk EXCEPT ![NextResolved] = content]
          /\ frames' = Append(ReplaceTop(Consumed), Frame(NextResolved, content))
    /\ reads' = Append(reads, NextResolved)
    /\ cache' = cache \cup {NextResolved}
    /\ stack' = stack \cup {NextResolved}
    /\ UNCHANGED <<earlier, maxDepth, outcome, textVars, buildVars>>

\* cache.get hits, and expand() is called on the cached content
CachedAndRecurse ==
    /\ CanInclude
    /\ CacheHas(cache, NextResolved)
    /\ frames' = Append(ReplaceTop(Consumed), Frame(NextResolved, disk[NextResolved]))
    /\ stack' = stack \cup {NextResolved}
    /\ UNCHANGED <<earlier, maxDepth, disk, cache, reads, outcome, textVars, buildVars>>

\* expand() returns: the rest of the input is appended; the caller deletes the
\* path from the stack and appends the expansion
Return ==
    /\ outcome = "running"
    /\ Top.entered
    /\ FromDirective(Top.rest) = <<>>
    /\ LET expanded == Top.acc \o TextBefore(Top.rest)
       IN  IF Len(frames) = 1
           THEN /\ frames' = <<[Top EXCEPT !.acc = expanded, !.rest = <<>>]>>
                /\ outcome' = "returned"
                /\ UNCHANGED stack
           ELSE /\ frames' =
                      LET callers == SubSeq(frames, 1, Len(frames) - 1)
                          caller == callers[Len(callers)]
                      IN  [callers EXCEPT ![Len(callers)] = [caller EXCEPT !.acc = caller.acc \o expanded]]
                /\ stack' = stack \ {Top.path}
                /\ UNCHANGED outcome
    /\ UNCHANGED <<earlier, maxDepth, disk, cache, reads, textVars, buildVars>>

NextExpand ==
    \/ Enter
    \/ ThrowPathEscape
    \/ ThrowCycle
    \/ ReadFails
    \/ ReadAndRecurse
    \/ CachedAndRecurse
    \/ Return

SpecExpand == InitExpand /\ [][NextExpand]_vars

\* Calls of expandIncludeDirectives one after the other on the same files: the
\* next call starts, with the content and path of the first, once the current
\* one has returned or thrown. The first call is on f0 with the default depth. Each call makes its own cache and stack.
MaxCalls == 2

InitExpandTwice ==
    /\ InitExpand
    /\ maxDepth = DefaultMaxDepth
    /\ frames[1].path = F0

CallAgain ==
    /\ outcome # "running"
    /\ Len(earlier) + 1 < MaxCalls
    /\ earlier' = Append(earlier, reads)
    /\ frames' = <<Frame(frames[1].path, disk[frames[1].path])>>
    /\ stack' = {}
    /\ cache' = {}
    /\ reads' = <<>>
    /\ outcome' = "running"
    /\ UNCHANGED <<maxDepth, disk, textVars, buildVars>>

NextExpandTwice == NextExpand \/ CallAgain

SpecExpandTwice == InitExpandTwice /\ [][NextExpandTwice]_vars

\* --- the vocabulary of the properties of the expansion ---

Directives(content) == SelectSeq(content, IsInc)

StartFile == frames[1].path

Finished == outcome \notin {"running", "idle"}

\* the file a directive of file p names
TargetOf(item, p) == ResolvedPath(item, RepoRoot, p)

Known(p) == p \in RepoFiles /\ disk[p] # Unread

\* The start file A includes, first, another file B whose first directive names A
CycleOfTwo ==
    /\ Directives(disk[StartFile]) # <<>>
    /\ LET b == TargetOf(Directives(disk[StartFile])[1], StartFile)
       IN  /\ b # StartFile
           /\ Known(b)
           /\ Directives(disk[b]) # <<>>
           /\ TargetOf(Directives(disk[b])[1], b) = StartFile

\* The paths of the activations below the outermost one, innermost last
ActivePaths == [i \in 1..(Len(frames) - 1) |-> frames[i + 1].path]

NoPathTwiceActive ==
    \A i, j \in 1..Len(ActivePaths) : i # j => ActivePaths[i] # ActivePaths[j]

\* C1 as stated: expanding A, where A includes B and B includes A, ends with
\* the include-cycle error whatever the maximum depth.
C1_CycleErrorAtAnyDepth ==
    (CycleOfTwo /\ Finished) => outcome = "IncludeCycle"

\* C1 amended: expanding A, where A's first directive names B and B's first
\* names A, ends with the include-cycle error when the maximum depth is at
\* least 2 and with the depth-exceeded error when it is 0 or 1; the nesting of
\* expand() never exceeds the maximum depth plus one, and no path is expanded
\* inside its own expansion.
C1_CycleOrDepthError ==
    /\ (CycleOfTwo /\ Finished) =>
          outcome = (IF maxDepth >= 2 THEN "IncludeCycle" ELSE "DepthExceeded")
    /\ Depth <= maxDepth + 1
    /\ NoPathTwiceActive
    /\ outcome = "running" => stack = {ActivePaths[i] : i \in 1..Len(ActivePaths)}

\* A is expanded a second time, inside B, and its directive naming B is refused
C1_Witness ==
    /\ CycleOfTwo
    /\ outcome = "IncludeCycle"
    /\ Depth = 2
    /\ Top.path = StartFile

\* The files F0, F1, ... reached from the start file by following the only
\* directive of each, as far as their contents are known and no file repeats
RECURSIVE ChainFrom(_, _)
ChainFrom(p, before) ==
    LET ds == Directives(disk[p])
        q == TargetOf(ds[1], p)
    IN  IF Len(ds) = 1 /\ Known(q) /\ q \notin before /\ q # p
        THEN <<p>> \o ChainFrom(q, before \cup {p})
        ELSE <<p>>

KnownChain == ChainFrom(StartFile, {})

\* the number n of includes of the chain F0 -> ... -> Fn
ChainIncludes == Len(KnownChain) - 1

\* the chain ends in a file without directives
ChainComplete == Directives(disk[KnownChain[Len(KnownChain)]]) = <<>>

\* The content with every directive replaced by the substituted content of
\* the file it names
RECURSIVE Substituted(_, _, _)
Substituted(content, p, fuel) ==
    IF content = <<>> THEN <<>>
    ELSE LET item == Head(content)
             q == TargetOf(item, p)
             here == IF ~IsInc(item) THEN item.segs
                     ELSE IF fuel = 0 \/ ~Known(q) THEN <<"unexpanded">>
                     ELSE Substituted(disk[q], q, fuel - 1)
         IN  here \o Substituted(Tail(content), p, fuel)

\* C2: an acyclic chain of n includes expanded with maximum depth D returns
\* the fully substituted content when n <= D and fails with the
\* depth-exceeded error when n > D; no result leaves a directive out.
C2_DepthLimitAtBoundary ==
    Finished =>
        /\ (ChainComplete /\ ChainIncludes <= maxDepth) => outcome = "returned"
        /\ ChainIncludes > maxDepth => outcome = "DepthExceeded"
        /\ outcome = "returned" =>
              Top.acc = Substituted(disk[StartFile], StartFile, Cardinality(RepoFiles))

\* A chain one include longer than the maximum depth failed on entering its last file
C2_Witness ==
    /\ outcome = "DepthExceeded"
    /\ maxDepth = 2
    /\ KnownChain = <<F0, F1, F2, F3>>

UnderRoot(p) == Len(p) >= Len(RepoRoot) /\ SubSeq(p, 1, Len(RepoRoot)) = RepoRoot

\* C3: every path handed to the file read is the repository root or lies
\* under it, and an expansion that reached a directive resolving outside
\* the root ended with the path-escape error.
C3_ReadsStayUnderRoot ==
    /\ \A i \in 1..Len(reads) : UnderRoot(reads[i])
    /\ (Finished /\ Top.entered /\ FromDirective(Top.rest) # <<>> /\ ~UnderRoot(NextResolved))
          => outcome = "PathEscape"

\* A dot-relative directive of a nested file, two levels down, escaped and was refused
C3_Witness ==
    /\ outcome = "PathEscape"
    /\ Depth = 2
    /\ StartsWithDot(NextDirective)
    /\ Len(reads) = 2

----------------------------------------------------------------------------
\* What the reads of a call are

ReadPaths == {reads[i] : i \in 1..Len(reads)}

NoPathReadTwice == \A i, j \in 1..Len(reads) : i # j => reads[i] # reads[j]

\* the start file has two directives that name the same file
NamesOneFileTwice ==
    LET ds == Directives(disk[StartFile])
    IN  Len(ds) = 2 /\ TargetOf(ds[1], StartFile) = TargetOf(ds[2], StartFile)

\* C16: within one call of expandIncludeDirectives no resolved path is read
\* from storage twice, however many directives name it; what the cache holds
\* are the paths this call has read, every file being expanded was read or
\* taken from the cache of this call, and a later call starts with an empty
\* cache: what it expands it reads itself, whatever earlier calls have read.
C16_ReadAtMostOncePerCall ==
    /\ NoPathReadTwice
    /\ cache = ReadPaths \cap FilePaths
    /\ \A i \in 1..Len(ActivePaths) : ActivePaths[i] \in cache
    /\ (outcome = "running" /\ ~Top.entered /\ Len(frames) = 1) => cache = {}

\* the second call has returned: the file its two directives name was read once
\* by it, and had been read once by the first call
C16_Witness ==
    /\ Len(earlier) = 1
    /\ outcome = "returned"
    /\ NamesOneFileTwice
    /\ reads = <<TargetOf(Directives(disk[StartFile])[1], StartFile)>>
    /\ earlier[1] = reads

----------------------------------------------------------------------------
\* stripFrontmatter called on every content of up to MaxFrontmatterLines lines

MaxFrontmatterLines == 4

FrontmatterLinePool ==
    { Dashes, <<" ">> \o Dashes \o <<" ">>, Dashes \o <<"-">>, <<"a">>, <<>>, <<"-", " ", "-">> }

FrontmatterInputs ==
    { JoinLines(ls) : ls \in SeqsUpTo(FrontmatterLinePool, MaxFrontmatterLines) \ {<<>>} }

InitFrontmatter ==
    /\ pc = "call"
    /\ input \in FrontmatterInputs
    /\ output = <<>>
    /\ ExpandIdle /\ BuildIdle

CallStripFrontmatter ==
    /\ pc = "call"
    /\ output' = stripFrontmatter(input)
    /\ pc' = "stripFrontmatter"
    /\ UNCHANGED <<input, expVars, buildVars>>

NextFrontmatter == CallStripFrontmatter

SpecFrontmatter == InitFrontmatter /\ [][NextFrontmatter]_vars

\* The line (1-based) that the character at position k of s belongs to; a
\* newline belongs to the line it ends.
LineOfPos(s, k) == 1 + Cardinality({j \in 1..(k - 1) : s[j] = NL})

LineCount(s) == 1 + Cardinality({j \in 1..Len(s) : s[j] = NL})

\* The characters of line i of s, without its newline
LineText(s, i) ==
    LET ks == {k \in 1..Len(s) : LineOfPos(s, k) = i /\ s[k] # NL}
    IN  IF ks = {} THEN <<>>
        ELSE LET lo == CHOOSE k \in ks : \A j \in ks : k <= j
                 hi == CHOOSE k \in ks : \A j \in ks : k >= j
             IN  SubSeq(s, lo, hi)

IsDelimiterLine(s, i) == Trim(LineText(s, i)) = Dashes

\* The text of s after line m: every character of a later line, in order
AfterLine(s, m) ==
    LET ks == {k \in 1..Len(s) : LineOfPos(s, k) > m}
    IN  IF ks = {} THEN <<>>
        ELSE SubSeq(s, CHOOSE k \in ks : \A j \in ks : k <= j, Len(s))

\* C7: stripFrontmatter returns exactly the text after the first closing
\* delimiter line when the first line is a delimiter and a later line is one
\* too, and returns its input unchanged otherwise.
C7_StripFrontmatterExact ==
    pc = "stripFrontmatter" =>
        LET closers == {i \in 2..LineCount(input) : IsDelimiterLine(input, i)}
        IN  IF IsDelimiterLine(input, 1) /\ closers # {}
            THEN output = AfterLine(input, CHOOSE i \in closers : \A j \in closers : i <= j)
            ELSE output = input

\* A delimited block closed before the last line, with text after it, was stripped
C7_Witness ==
    /\ pc = "stripFrontmatter"
    /\ IsDelimiterLine(input, 1)
    /\ IsDelimiterLine(input, 3)
    /\ ~IsDelimiterLine(input, 2)
    /\ LineCount(input) = 4
    /\ output = <<"a">>

----------------------------------------------------------------------------
\* docPathToUrl called on every root-relative path of up to MaxUrlDirs
\* directories and a file name, with a base URL with and without its final "/"

MaxUrlDirs == 2

UrlDirPool == { <<"g">>, <<"a", ".", "m", "d">>, <<"I", "n", "d", "e", "x", ".", "m", "d">> }

UrlFilePool ==
    { <<"r", "e", "a", "d", "m", "e", ".", "m", "d">>, <<"R", "E", "A", "D", "M", "E", ".", "m", "d">>, <<"R", "e", "a", "d", "M", "e", ".", "M", "D">>, <<"i", "n", "d", "e", "x", ".", "m", "d">>, <<"I", "N", "D", "E", "X", ".", "m", "d">>,
      <<"u", "p", ".", "m", "d">>, <<"x", ".", "M", "D">>, <<"m", "y", "r", "e", "a", "d", "m", "e", ".", "m", "d">>, <<"i", "n", "d", "e", "x", ".", "m", "d", "x">>, <<"l", "o", "g", "o", ".", "p", "n", "g">>, <<"m", "d">>, <<".", "m", "d">> }

UrlBasePool == { <<"h", ":", "/", "/", "x", "/", "5", "/">>, <<"h", ":", "/", "/", "x", "/", "5">> }

UrlInputs ==
    { [path |-> JoinBy(dirs \o <<file>>, "/"), base |-> base] :
        dirs \in SeqsUpTo(UrlDirPool, MaxUrlDirs), file \in UrlFilePool, base \in UrlBasePool }

InitUrl ==
    /\ pc = "call"
    /\ input \in UrlInputs
    /\ output = <<>>
    /\ ExpandIdle /\ BuildIdle

CallDocPathToUrl ==
    /\ pc = "call"
    /\ output' = docPathToUrl(input.path, input.base)
    /\ pc' = "docPathToUrl"
    /\ UNCHANGED <<input, expVars, buildVars>>

NextUrl == CallDocPathToUrl

SpecUrl == InitUrl /\ [][NextUrl]_vars

\* The published name of a file name: index.html for readme.md and index.md
\* in any letter case, .html for .md, the name itself otherwise
PublishedName(name) ==
    IF ToLowerCase(name) \in {ReadmeMd, IndexMd} THEN IndexHtml
    ELSE IF Len(name) >= 3 /\ ToLowerCase(SubSeq(name, Len(name) - 2, Len(name))) = DotMd
         THEN SubSeq(name, 1, Len(name) - 3) \o DotHtml
    ELSE name

\* the path with its last segment replaced by its published name
PublishedPath(p) ==
    LET segs == SplitBy(p, "/")
    IN  JoinBy(SubSeq(segs, 1, Len(segs) - 1) \o <<PublishedName(segs[Len(segs)])>>, "/")

\* C8: docPathToUrl(p, base) is the base, ending in exactly the "/" it had
\* or was given, followed by p with its last segment mapped: readme.md and
\* index.md (any case) to index.html of the same directory, other .md names
\* to .html, every other name to itself.
C8_DocPathToUrlMapping ==
    pc = "docPathToUrl" =>
        output = input.base \o (IF input.base[Len(input.base)] = "/" THEN <<>> ELSE <<"/">>)
                            \o PublishedPath(input.path)

\* guides/README.md, with a base lacking its "/", went to guides/index.html
C8_Witness ==
    /\ pc = "docPathToUrl"
    /\ input = [path |-> <<"g", "/", "R", "E", "A", "D", "M", "E", ".", "m", "d">>, base |-> <<"h", ":", "/", "/", "x", "/", "5">>]
    /\ output = <<"h", ":", "/", "/", "x", "/", "5", "/", "g", "/", "i", "n", "d", "e", "x", ".", "h", "t", "m", "l">>

----------------------------------------------------------------------------
\* extractTitle called on every content of up to MaxTitleLines lines

MaxTitleLines == 4

TitleLinePool ==
    { <<"#", " ", "T">>, <<"#", " ", "U", " ", "#">>, <<"#", " ", " ">>, <<"#", "T">>, <<" ", "#", " ", "T">>, <<BQ, BQ, BQ>>, <<"~", "~", "~">>, <<"x">> }

TitleInputs ==
    { [content |-> JoinLines(ls), fallback |-> <<"f", "i", "l", "e">>] :
        ls \in SeqsUpTo(TitleLinePool, MaxTitleLines) \ {<<>>} }

InitTitle ==
    /\ pc = "call"
    /\ input \in TitleInputs
    /\ output = <<>>
    /\ ExpandIdle /\ BuildIdle

CallExtractTitle ==
    /\ pc = "call"
    /\ output' = extractTitle(input.content, input.fallback)
    /\ pc' = "extractTitle"
    /\ UNCHANGED <<input, expVars, buildVars>>

NextTitle == CallExtractTitle

SpecTitle == InitTitle /\ [][NextTitle]_vars

\* The fence state after the first i lines
RECURSIVE FenceAfter(_, _)
FenceAfter(lines, i) ==
    IF i = 0 THEN NotFenced ELSE updateFenceState(lines[i], FenceAfter(lines, i - 1))

\* the lines that are level-1 headings outside every fence
UnfencedH1Lines(lines) ==
    {i \in 1..Len(lines) : H1Match(lines[i]) # <<>> /\ ~FenceAfter(lines, i).inFence}

\* C9: extractTitle returns the trimmed heading text of the first level-1
\* heading line outside every fence, never one inside a fence, and exactly
\* the fallback when there is no such line.
C9_TitleIsFirstUnfencedH1 ==
    pc = "extractTitle" =>
        LET lines == SplitLines(input.content)
            hs == UnfencedH1Lines(lines)
        IN  IF hs = {} THEN output = input.fallback
            ELSE output = Trim(H1Match(lines[CHOOSE i \in hs : \A j \in hs : i <= j])[1])

\* A heading inside a fence was passed over for the one after the fence
C9_Witness ==
    /\ pc = "extractTitle"
    /\ input.content = JoinLines(<< <<BQ, BQ, BQ>>, <<"#", " ", "T">>, <<BQ, BQ, BQ>>, <<"#", " ", "U", " ", "#">> >>)
    /\ output = <<"U">>

----------------------------------------------------------------------------
\* normalizeLinks applied once and then again to its own result, on contents of
\* at most MaxLinkLines lines.

MaxLinkLines == 2

InlineLink(destination) == <<"[", "a", "]", "(">> \o destination \o <<")">>

\* destinations normalizeDocLink returns as they are: empty, a pure fragment,
\* protocol-relative, schemed
UntouchedDestinations == { <<>>, <<"#", "f">>, <<"/", "/", "c">>, <<"m", ":", "x">> }

RewrittenDestinations ==
    { <<"b", ".", "m", "d">>, <<".", ".", "/", "R", "E", "A", "D", "M", "E", ".", "m", "d", "#", "h">>, <<"/", "d", "o", "c", "s", "/", "5", ".", "x", "/", "g", "/", "i", "n", "d", "e", "x", ".", "m", "d", "?", "q">>, <<" ", "<", "u", " ", "v", ".", "m", "d", ">", " ", "\"", "T", "\"">> }

LinkLinePool ==
    { InlineLink(d) : d \in UntouchedDestinations \cup RewrittenDestinations }
    \cup { <<"!", "[", "i", "]", "(", "p", ".", "m", "d", ")">>, <<"[", "r", "]", ":", " ", "k", ".", "m", "d", " ", "\"", "t", "\"">>, <<"[", "r", "]", ":", " ", "[", "b", "]", "(", "/", "/", "c", ")">>, <<"[", "r", "]", ":", " ", "x", " ", "[", "b", "]", "(", "c", ".", "m", "d", ")">>, Backticks }

LinkInputs ==
    [content : {JoinLines(ls) : ls \in SeqsUpTo(LinkLinePool, MaxLinkLines) \ {<<>>}},
     currentFilePath : {<<"f", ".", "m", "d">>, <<"d", "/", "g", ".", "m", "d">>},
     baseUrl : {<<"h", ":", "/", "/", "x">>, <<"h", ":", "/", "/", "x", "/", "y", "/">>}]

InitLinks ==
    /\ pc = "call"
    /\ input \in LinkInputs
    /\ output = <<>>
    /\ ExpandIdle /\ BuildIdle

CallNormalizeLinks ==
    /\ pc = "call"
    /\ output' = <<normalizeLinks(input.content, input.currentFilePath, input.baseUrl)>>
    /\ pc' = "normalizeLinks"
    /\ UNCHANGED <<input, expVars, buildVars>>

CallNormalizeLinksAgain ==
    /\ pc = "normalizeLinks"
    /\ output' = Append(output, normalizeLinks(output[1], input.currentFilePath, input.baseUrl))
    /\ pc' = "normalizeLinksAgain"
    /\ UNCHANGED <<input, expVars, buildVars>>

NextLinks == CallNormalizeLinks \/ CallNormalizeLinksAgain

SpecLinks == InitLinks /\ [][NextLinks]_vars

HasInlineLink(line) ==
    \E i \in 1..Len(line) :
        LinkAt(Drop(line, i - 1), IF i = 1 THEN "" ELSE line[i - 1]).len > 0

\* a reference definition that also holds an inline link
IsMixedLine(line) == ReferenceMatch(line) # NoReference /\ HasInlineLink(line)

HasUnfencedMixedLine(content) ==
    LET lines == SplitLines(content)
    IN  \E i \in 1..Len(lines) : ~FenceAfter(lines, i).inFence /\ IsMixedLine(lines[i])

UntouchedKept ==
    pc # "call" =>
        \A d \in UntouchedDestinations :
            input.content = InlineLink(d) => output[1] = input.content

\* C10, as stated: normalizeLinks applied to its own result changes nothing, for
\* every content and current file path when the base URL carries a scheme; a
\* destination that is empty, a pure fragment, protocol-relative or schemed is
\* returned unchanged.
C10_NormalizeLinksIdempotent ==
    /\ pc = "normalizeLinksAgain" => output[2] = output[1]
    /\ UntouchedKept

\* C10, amended: normalizeLinks applied to its own result changes nothing
\* whenever no line outside a fence is both a reference definition and the
\* holder of an inline link; a destination that is empty, a pure fragment,
\* protocol-relative or schemed is returned unchanged.
C10_IdempotentWithoutLinkInReference ==
    /\ (pc = "normalizeLinksAgain" /\ ~HasUnfencedMixedLine(input.content)) => output[2] = output[1]
    /\ UntouchedKept

\* a content without a mixed line whose links were rewritten by the first pass
\* and left alone by the second
C10_Witness ==
    /\ pc = "normalizeLinksAgain"
    /\ ~HasUnfencedMixedLine(input.content)
    /\ output[1] # input.content
    /\ output[2] = output[1]

----------------------------------------------------------------------------
\* stripVuePressDirectives and normalizeLinks on contents with fenced blocks, of
\* at most MaxFencedLines lines.

MaxFencedLines == 3

FencedLinePool ==
    { Backticks, Tildes, <<":", ":", ":", " ", "t", "i", "p">>, <<"!", "!", "!", "x">>, <<"<", "!", "-", "-", "c", "-", "-", ">", " ", "<", "F", "o", "o", ">">>, <<"[", "a", "]", "(", "b", ".", "m", "d", ")">>,
      <<BQ, BQ, BQ, " ", "<", "!", "-", "-", "c", "-", "-", ">", "<", "F", "o", "o", ">", "[", "a", "]", "(", "b", ".", "m", "d", ")">> }

FencedInputs ==
    [content : {JoinLines(ls) : ls \in SeqsUpTo(FencedLinePool, MaxFencedLines) \ {<<>>}},
     currentFilePath : {<<"f", ".", "m", "d">>},
     baseUrl : {<<"h", ":", "/", "/", "x">>}]

InitFenced ==
    /\ pc = "call"
    /\ input \in FencedInputs
    /\ output = <<>>
    /\ ExpandIdle /\ BuildIdle

CallStripVuePressDirectives ==
    /\ pc = "call"
    /\ output' = stripVuePressDirectives(input.content)
    /\ pc' = "stripVuePressDirectives"
    /\ UNCHANGED <<input, expVars, buildVars>>

CallNormalizeLinksFenced ==
    /\ pc = "call"
    /\ output' = normalizeLinks(input.content, input.currentFilePath, input.baseUrl)
    /\ pc' = "normalizeLinks"
    /\ UNCHANGED <<input, expVars, buildVars>>

NextFenced == CallStripVuePressDirectives \/ CallNormalizeLinksFenced

SpecFenced == InitFenced /\ [][NextFenced]_vars

\* line i belongs to a fenced block: it opens one, is in its body, or closes it
InFencedBlock(lines, i) ==
    FenceAfter(lines, i - 1).inFence \/ FenceAfter(lines, i).inFence

\* the lines before line i that stripVuePressDirectives drops: directive lines
\* outside every fenced block
DroppedBefore(lines, i) ==
    Cardinality({j \in 1..(i - 1) : ~InFencedBlock(lines, j) /\ IsDirectiveLine(lines[j])})

FencedLinesKept(inLines, outLines, dropping) ==
    \A i \in 1..Len(inLines) :
        InFencedBlock(inLines, i) =>
            LET k == IF dropping THEN i - DroppedBefore(inLines, i) ELSE i
            IN  k <= Len(outLines) /\ outLines[k] = inLines[i]

\* C6: stripVuePressDirectives and normalizeLinks output every line of a fenced
\* block (opening delimiter line, body lines, closing delimiter line) unchanged
\* and in the same order.
C6_FencedLinesUnchanged ==
    /\ pc = "stripVuePressDirectives" =>
           FencedLinesKept(SplitLines(input.content), SplitLines(output), TRUE)
    /\ pc = "normalizeLinks" =>
           FencedLinesKept(SplitLines(input.content), SplitLines(output), FALSE)

----------------------------------------------------------------------------
\* The assembler: build(), one step per awaited operation

\* the character U+2014 is written "EMDASH"
EmDash == "EMDASH"

HeaderTitle == <<"#", " ", "C", "r", "a", "f", "t", " ", "C", "M", "S", " ", "D", "o", "c", "u", "m", "e", "n", "t", "a", "t", "i", "o", "n">>
HeaderBlurb ==
    <<"C", "r", "a", "f", "t", " ", "C", "M", "S", " ", "5", ".", "x", " ", "d", "o", "c", "u", "m", "e", "n", "t", "a", "t", "i", "o", "n", " ", "c", "o", "v", "e", "r", "i", "n", "g", " ", "i", "n", "s", "t", "a", "l", "l", "a", "t", "i", "o", "n", ",", " ", "c", "o", "n", "f", "i", "g", "u", "r", "a", "t", "i", "o", "n", ",", " ", "t", "e", "m", "p", "l", "a", "t", "i", "n", "g", ",", " ", "a", "n", "d", " ", "e", "x", "t", "e", "n", "s", "i", "o", "n", " ", "p", "o", "i", "n", "t", "s", ".">>
IndexTitle == <<"#", " ", "C", "r", "a", "f", "t", " ", "C", "M", "S", " ", "D", "o", "c", "u", "m", "e", "n", "t", "a", "t", "i", "o", "n", " ", "I", "n", "d", "e", "x">>

LastUpdated(m) == <<"L", "a", "s", "t", " ", "u", "p", "d", "a", "t", "e", "d", ":", " ">> \o m.timestamp \o <<" ", "(", "c", "o", "m", "m", "i", "t", " ">> \o m.commit \o <<")">>

headerLines(m) == <<HeaderTitle, HeaderBlurb, LastUpdated(m), <<>>>>

fullText(m, chunks) ==
    JoinLines(headerLines(m)) \o <<NL>> \o TrimEnd(JoinLines(chunks)) \o <<NL>>

GroupOf(relPath) ==
    IF IndexOfChar(relPath, "/") # -1 THEN SplitBy(relPath, "/")[1] ELSE <<"r", "o", "o", "t">>

EntryLine(entry) ==
    <<"-", " ", "[">> \o entry.title \o <<"]", "(">> \o entry.url \o <<")">>
    \o (IF entry.summary # <<>> THEN <<" ", EmDash, " ">> \o entry.summary ELSE <<>>)

\* the entries left in push order
SortedEntriesInPushOrder(entries) == entries

\* entries.sort((a, b) => a.relPath.localeCompare(b.relPath))
SortedEntries(entries) ==
    LET sorted == SortByLocale({entries[i].relPath : i \in 1..Len(entries)})
    IN  [i \in 1..Len(sorted) |-> entries[CHOOSE j \in 1..Len(entries) : entries[j].relPath = sorted[i]]]

GroupLines(group, entries) ==
    <<<<"#", "#", " ">> \o group>>
    \o [i \in 1..Len(entries) |-> EntryLine(SortedEntries(entries)[i])]
    \o << <<>> >>

indexLines(m, groups) ==
    LET sortedGroups == SortByLocale(DOMAIN groups)
    IN  <<IndexTitle, LastUpdated(m), <<>>>>
        \o Concat([i \in 1..Len(sortedGroups) |-> GroupLines(sortedGroups[i], groups[sortedGroups[i]])])

indexText(m, groups) == TrimEnd(JoinLines(indexLines(m, groups))) \o <<NL>>

\* the body of the loop over files, after the read: what is pushed for a page
\* whose content without frontmatter and directives is `cleaned`
PageOf(cleaned, relPath, fallbackTitle, baseUrl) ==
    [relPath |-> relPath,
     title |-> extractTitle(cleaned, fallbackTitle),
     normalizedContent |-> TrimEnd(normalizeLinks(cleaned, relPath, baseUrl)),
     summary |-> extractSummary(cleaned),
     url |-> docPathToUrl(relPath, baseUrl),
     group |-> GroupOf(relPath)]

ProcessedPage(filePath, raw, root, baseUrl) ==
    PageOf(stripVuePressDirectives(stripFrontmatter(raw)),
           toPosixPath(PathRelative(root, filePath)),
           PathBasenameWithout(filePath, PathExtname(filePath)),
           baseUrl)

PageChunk(page) == <<<<"-", "-", "-">>, <<"#", " ">> \o page.title, page.normalizedContent, <<>>>>

IndexEntry(page) ==
    [title |-> page.title, url |-> page.url, summary |-> page.summary, relPath |-> page.relPath]

docsRepoDir(cfg) == PathResolve(cfg.docsDir)
outputDir(cfg) == PathResolve(cfg.outputDir)
primaryDocsRoot(cfg) == PosixJoin(docsRepoDir(cfg), <<"d", "o", "c", "s", "/", "d", "o", "c", "s", "/", "5", ".", "x">>)
fallbackDocsRoot(cfg) == PosixJoin(docsRepoDir(cfg), <<"d", "o", "c", "s", "/", "5", ".", "x">>)
fullPath(cfg) == PosixJoin(outputDir(cfg), <<"l", "l", "m", "s", "-", "f", "u", "l", "l", ".", "t", "x", "t">>)
indexPath(cfg) == PosixJoin(outputDir(cfg), <<"l", "l", "m", "s", ".", "t", "x", "t">>)

\* resolveDocsRoot: the first candidate that exists
FirstAccessible(cfg, roots) ==
    IF primaryDocsRoot(cfg) \in roots THEN primaryDocsRoot(cfg) ELSE fallbackDocsRoot(cfg)

BuildConfigs ==
    { [outputDir |-> <<"o">>, baseUrl |-> <<"h", ":", "/", "/", "x">>, docsRepo |-> <<"u">>, docsDir |-> <<"d">>] }

BuildFilePool == { <<"b", ".", "m", "d">>, <<"g", "/", "z", ".", "m", "d">>, <<"g", "/", "a", "/", "x", ".", "m", "d">>, <<"h", "/", "c", ".", "m", "d">> }

NotMarkdown == <<"n", ".", "t", "x", "t">>

BuildContentPool ==
    { <<>>,
      <<"-", "-", "-", NL, "t", ":", " ", "1", NL, "-", "-", "-", NL, "#", " ", "T", " ", "#", NL, NL, "s", "e", "e", " ", "[", "l", "]", "(", "z", ".", "m", "d", ")", " ", "<", "F", "o", "o", ">", NL>>,
      <<"!", "!", "!", "i", "n", "c", "l", "u", "d", "e", "(", "/", "b", ".", "m", "d", ")", "!", "!", "!", NL, "t", "e", "x", "t">>,
      <<":", ":", ":", " ", "t", "i", "p", NL, ">", " ", "q", NL, ":", ":", ":", NL, BQ, BQ, BQ, NL, "#", " ", "n", "o", NL, BQ, BQ, BQ>> }

MetaPool == { [commit |-> <<"c", "0", "f", "f", "e", "e", "1">>, timestamp |-> <<"2", "0", "2", "4", "-", "0", "5", "-", "0", "1", "T", "1", "0", ":", "0", "0", ":", "0", "0", "+", "0", "2", ":", "0", "0">>] }

\* the checkouts a run can meet: no docs root, or one with some of the files
FilesUnder(root, contents) ==
    [p \in {PosixJoin(root, r) : r \in DOMAIN contents \cup {NotMarkdown}} |->
        IF PathRelative(root, p) = NotMarkdown THEN <<"n">> ELSE contents[PathRelative(root, p)]]

Checkouts(cfg) ==
    { [roots |-> {}, files |-> <<>>] }
    \cup { [roots |-> roots, files |-> FilesUnder(FirstAccessible(cfg, roots), contents)] :
             roots \in { {fallbackDocsRoot(cfg)}, {primaryDocsRoot(cfg), fallbackDocsRoot(cfg)} },
             contents \in UNION { [S -> BuildContentPool] : S \in SUBSET BuildFilePool } }

InitBuild ==
    /\ bpc = "build"
    /\ config \in BuildConfigs
    /\ tree \in Checkouts(config)
    /\ docsRoot = <<>> /\ files = <<>> /\ meta = <<>> /\ cursor = 0
    /\ pageChunks = <<>> /\ indexGroups = <<>> /\ written = <<>> /\ result = <<>>
    /\ TextIdle /\ ExpandIdle

\* an awaited operation rejects: build() throws the error
Throw(error) ==
    /\ bpc' = "threw"
    /\ result' = [error |-> error]
    /\ UNCHANGED <<config, tree, docsRoot, files, meta, cursor, pageChunks, indexGroups, written>>
    /\ UNCHANGED <<textVars, expVars>>

EnsureDocsRepo ==
    /\ bpc = "build"
    /\ bpc' = "ensureDocsRepo"
    /\ UNCHANGED <<config, tree, docsRoot, files, meta, cursor, pageChunks, indexGroups, written, result>>
    /\ UNCHANGED <<textVars, expVars>>

EnsureDocsRepoFails ==
    /\ bpc = "build"
    /\ Throw("git failed")

ResolveDocsRoot ==
    /\ bpc = "ensureDocsRepo"
    /\ tree.roots # {}
    /\ docsRoot' = FirstAccessible(config, tree.roots)
    /\ bpc' = "resolveDocsRoot"
    /\ UNCHANGED <<config, tree, files, meta, cursor, pageChunks, indexGroups, written, result>>
    /\ UNCHANGED <<textVars, expVars>>

ResolveDocsRootFails ==
    /\ bpc = "ensureDocsRepo"
    /\ tree.roots = {}
    /\ Throw("Docs path not found")

CollectMarkdownFiles ==
    /\ bpc = "resolveDocsRoot"
    /\ files' = collectMarkdownFiles(docsRoot, DOMAIN tree.files)
    /\ bpc' = "collectMarkdownFiles"
    /\ UNCHANGED <<config, tree, docsRoot, meta, cursor, pageChunks, indexGroups, written, result>>
    /\ UNCHANGED <<textVars, expVars>>

CollectMarkdownFilesFails ==
    /\ bpc = "resolveDocsRoot"
    /\ Throw("readdir failed")

GetRepoMeta ==
    /\ bpc = "collectMarkdownFiles"
    /\ \E m \in MetaPool : meta' = m
    /\ cursor' = 1
    /\ bpc' = "files"
    /\ UNCHANGED <<config, tree, docsRoot, files, pageChunks, indexGroups, written, result>>
    /\ UNCHANGED <<textVars, expVars>>

GetRepoMetaFails ==
    /\ bpc = "collectMarkdownFiles"
    /\ Throw("git failed")

\* pageChunks.push(...) and entries.push(...) for a page
PushPage(page) ==
    /\ pageChunks' = pageChunks \o PageChunk(page)
    /\ indexGroups' = [g \in DOMAIN indexGroups \cup {page.group} |->
                          IF g = page.group
                          THEN Append(IF g \in DOMAIN indexGroups THEN indexGroups[g] ELSE <<>>,
                                      IndexEntry(page))
                          ELSE indexGroups[g]]

\* one turn of the loop over files: the read and everything up to the next read
ProcessFile ==
    /\ bpc = "files"
    /\ cursor <= Len(files)
    /\ PushPage(ProcessedPage(files[cursor], tree.files[files[cursor]], docsRoot,
                               NormalizedBase(config.baseUrl)))
    /\ cursor' = cursor + 1
    /\ UNCHANGED <<bpc, config, tree, docsRoot, files, meta, written, result>>
    /\ UNCHANGED <<textVars, expVars>>

ReadFileFails ==
    /\ bpc = "files"
    /\ cursor <= Len(files)
    /\ Throw("readFile failed")

Mkdir ==
    /\ bpc = "files"
    /\ cursor > Len(files)
    /\ bpc' = "mkdir"
    /\ UNCHANGED <<config, tree, docsRoot, files, meta, cursor, pageChunks, indexGroups, written, result>>
    /\ UNCHANGED <<textVars, expVars>>

MkdirFails ==
    /\ bpc = "files"
    /\ cursor > Len(files)
    /\ Throw("mkdir failed")

WriteFull ==
    /\ bpc = "mkdir"
    /\ written' = (fullPath(config) :> fullText(meta, pageChunks)) @@ written
    /\ bpc' = "writeFull"
    /\ UNCHANGED <<config, tree, docsRoot, files, meta, cursor, pageChunks, indexGroups, result>>
    /\ UNCHANGED <<textVars, expVars>>

WriteFullFails ==
    /\ bpc = "mkdir"
    /\ Throw("writeFile failed")

WriteIndex ==
    /\ bpc = "writeFull"
    /\ written' = (indexPath(config) :> indexText(meta, indexGroups)) @@ written
    /\ bpc' = "returned"
    /\ result' = [fullPath |-> fullPath(config), indexPath |-> indexPath(config), totalFiles |-> Len(files)]
    /\ UNCHANGED <<config, tree, docsRoot, files, meta, cursor, pageChunks, indexGroups>>
    /\ UNCHANGED <<textVars, expVars>>

WriteIndexFails ==
    /\ bpc = "writeFull"
    /\ Throw("writeFile failed")

NextBuild ==
    \/ EnsureDocsRepo \/ EnsureDocsRepoFails
    \/ ResolveDocsRoot \/ ResolveDocsRootFails
    \/ CollectMarkdownFiles \/ CollectMarkdownFilesFails
    \/ GetRepoMeta \/ GetRepoMetaFails
    \/ ProcessFile \/ ReadFileFails
    \/ Mkdir \/ MkdirFails
    \/ WriteFull \/ WriteFullFails
    \/ WriteIndex \/ WriteIndexFails

SpecBuild == InitBuild /\ [][NextBuild]_vars

\* the pages the loop has processed so far
Processed == 1..(Len(pageChunks) \div 4)

BuildFinished == bpc \in {"returned", "threw"}

WrittenPaths == DOMAIN written

\* C4: every run of build, whatever fails and wherever, ends with both output
\* files written for the complete file set, or with none written and an error
\* for the caller; it never ends with exactly one of the two written.
C4_BothOutputsOrNeither ==
    BuildFinished =>
        \/ /\ bpc = "returned"
           /\ WrittenPaths = {fullPath(config), indexPath(config)}
           /\ Processed = 1..Len(files)
           /\ written[fullPath(config)] = fullText(meta, pageChunks)
           /\ written[indexPath(config)] = indexText(meta, indexGroups)
        \/ /\ bpc = "threw"
           /\ WrittenPaths = {}
           /\ "error" \in DOMAIN result

\* what build would push for the k-th file if its content went through include
\* expansion before the other transforms
PageWithIncludes(k) ==
    ProcessedPage(files[k],
                  expandIncludeDirectives(tree.files[files[k]], docsRoot, files[k],
                                          DefaultMaxDepth, tree.files).text,
                  docsRoot, NormalizedBase(config.baseUrl))

IncludesExpand(k) ==
    expandIncludeDirectives(tree.files[files[k]], docsRoot, files[k], DefaultMaxDepth, tree.files).ok

EntryOf(k) ==
    LET entries == indexGroups[GroupOf(toPosixPath(PathRelative(docsRoot, files[k])))]
    IN  entries[CHOOSE i \in 1..Len(entries) :
                    entries[i].relPath = toPosixPath(PathRelative(docsRoot, files[k]))]

PushedAs(k, page) ==
    /\ SubSeq(pageChunks, 4 * k - 3, 4 * k) = PageChunk(page)
    /\ EntryOf(k) = IndexEntry(page)

\* C5: for every file build processes, the page and the index entry are those of
\* the pipeline include expansion, frontmatter stripping, directive/component
\* rewriting, link normalization, metadata extraction: include expansion is
\* applied to the file's content, before frontmatter is stripped and before
\* directive lines are dropped.
C5_IncludeExpansionFirst ==
    \A k \in Processed : IncludesExpand(k) => PushedAs(k, PageWithIncludes(k))

----------------------------------------------------------------------------
\* The index build wrote, read back line by line

IndexLinesWritten == SplitLines(written[indexPath(config)])

SectionMark == <<"#", "#", " ">>

IsSectionLine(line) == StartsWith(line, SectionMark)

SectionStarts(lines) == {i \in 1..Len(lines) : IsSectionLine(lines[i])}

SectionName(line) == Drop(line, Len(SectionMark))

\* the group names of the sections, top to bottom
RECURSIVE SectionNames(_, _)
SectionNames(lines, i) ==
    IF i > Len(lines) THEN <<>>
    ELSE (IF IsSectionLine(lines[i]) THEN <<SectionName(lines[i])>> ELSE <<>>)
         \o SectionNames(lines, i + 1)

\* the lines of the section that starts at line i: up to the next blank line
RECURSIVE SectionBody(_, _)
SectionBody(lines, i) ==
    IF i + 1 > Len(lines) \/ lines[i + 1] = <<>> THEN <<>>
    ELSE <<lines[i + 1]>> \o SectionBody(lines, i + 1)

RelPathOf(k) == toPosixPath(PathRelative(docsRoot, files[k]))

\* the section a file belongs to: the first segment of its root-relative path,
\* root for a top-level file
SectionOf(relPath) ==
    LET slash == IndexOfChar(relPath, "/")
    IN  IF slash = -1 THEN <<"r", "o", "o", "t">> ELSE SubSeq(relPath, 1, slash)

\* the entries pushed during the loop, of every group
PushedEntries == UNION {{indexGroups[g][n] : n \in 1..Len(indexGroups[g])} : g \in DOMAIN indexGroups}

\* the pushed entries whose index line is the given line
EntriesShownAs(pushed, line) == {e \in pushed : EntryLine(e) = line}

IsAscending(names) ==
    \A i, j \in 1..Len(names) : i < j => localeCompare(names[i], names[j]) < 0

\* the relative paths a section lists, top to bottom
Listed(pushed, body) ==
    [n \in 1..Len(body) |-> (CHOOSE e \in EntriesShownAs(pushed, body[n]) : TRUE).relPath]

ListsFile(pushed, body, relPath) ==
    \E n \in 1..Len(body) : \E e \in EntriesShownAs(pushed, body[n]) : e.relPath = relPath

SectionInOrder(pushed, name, body) ==
    /\ \A n \in 1..Len(body) : EntriesShownAs(pushed, body[n]) # {}
    /\ IsAscending(Listed(pushed, body))
    /\ \A n \in 1..Len(body) : SectionOf(Listed(pushed, body)[n]) = name

IndexInOrder(lines, pushed) ==
    /\ IsAscending(SectionNames(lines, 1))
    /\ \A i \in SectionStarts(lines) :
           SectionInOrder(pushed, SectionName(lines[i]), SectionBody(lines, i))
    /\ \A k \in 1..Len(files) :
           \E i \in SectionStarts(lines) :
               /\ SectionName(lines[i]) = SectionOf(RelPathOf(k))
               /\ ListsFile(pushed, SectionBody(lines, i), RelPathOf(k))

\* C11: in the index build writes, sections are in ascending order of group
\* name, the entries of a section are in ascending order of relative path, every
\* file is listed in the section named by the first segment of its root-relative
\* path, and a top-level file is in the section root.
C11_IndexSortedAndGrouped ==
    bpc = "returned" => IndexInOrder(IndexLinesWritten, PushedEntries)

\* an index with two directory sections and a root section, one of them listing
\* a file of a nested directory that was discovered after the file it precedes
C11_Witness ==
    /\ bpc = "returned"
    /\ Len(SectionNames(IndexLinesWritten, 1)) = 3
    /\ \E a, b \in 1..Len(files) :
           /\ a < b
           /\ SectionOf(RelPathOf(a)) = SectionOf(RelPathOf(b))
           /\ localeCompare(RelPathOf(b), RelPathOf(a)) < 0

----------------------------------------------------------------------------
\* How the written texts end

EndsWithOneNewline(text) ==
    /\ Len(text) >= 1
    /\ text[Len(text)] = NL
    /\ Len(text) >= 2 => text[Len(text) - 1] # NL

\* C12: for every set of files build processes, the empty one included, the
\* full text and the index text it writes each end with exactly one newline.
C12_OneTrailingNewline ==
    bpc = "returned" =>
        /\ EndsWithOneNewline(written[fullPath(config)])
        /\ EndsWithOneNewline(written[indexPath(config)])

\* the same, for the runs that collected at least one file
C12_OneTrailingNewlineWithFiles ==
    (bpc = "returned" /\ files # <<>>) => C12_OneTrailingNewline

\* the index text alone ends with exactly one newline in every run
C12_IndexOneTrailingNewline ==
    bpc = "returned" => EndsWithOneNewline(written[indexPath(config)])

----------------------------------------------------------------------------
\* stripVuePressDirectives on one component tag in a line of text, after some
\* leading lines

TagPool ==
    { <<"<", "c", "l", "o", "u", "d", ">">>, <<"<", "c", "l", "o", "u", "d", " ", "/", ">">>, <<"<", "c", "l", "o", "u", "d", "/", ">">>, <<"<", "c", "l", "o", "u", "d", " ", "p", "l", "a", "n", "=", "\"", "p", "r", "o", "\"", ">">>, <<"<", "c", "l", "o", "u", "d", " ", "t", "e", "x", "t", "=", "\"", "x", "\"", " ", "/", ">">>,
      <<"<", "C", "l", "o", "u", "d", ">">>, <<"<", "/", "c", "l", "o", "u", "d", ">">>,
      <<"<", "n", "s", ":", "n", "a", "m", "e", ">">>, <<"<", "n", "s", ":", "n", "a", "m", "e", " ", "a", "=", "\"", "b", "\"", ">">>, <<"<", "n", "s", ":", "n", "a", "m", "e", " ", "/", ">">>, <<"<", "/", "n", "s", ":", "n", "a", "m", "e", ">">>, <<"<", "x", ":", "d", "i", "v", ">">>,
      <<"<", "F", "o", "o", ">">>, <<"<", "d", "i", "v", ">">>, <<"<", "b", "a", "d", "g", "e", " ", "t", "e", "x", "t", "=", "\"", "v", "\"", ">">>, <<"<", "t", "a", "b", ">">> }

TagLeadPool == { <<>>, <<<<"t", "e", "x", "t">>>>, <<Backticks, <<"x">>, Backticks>>, <<Backticks>>, <<Tildes, Backticks>> }

TagInputs ==
    { [content |-> JoinLines(lead \o <<before \o tag \o after>>),
       currentFilePath |-> <<"f", ".", "m", "d">>, baseUrl |-> <<"h", ":", "/", "/", "x">>,
       lead |-> lead, before |-> before, tag |-> tag, after |-> after] :
          lead \in TagLeadPool, before \in {<<>>, <<"a", " ">>}, tag \in TagPool, after \in {<<>>, <<" ", "z">>} }

InitTags ==
    /\ pc = "call"
    /\ input \in TagInputs
    /\ output = <<>>
    /\ ExpandIdle /\ BuildIdle

NextTags == CallStripVuePressDirectives

SpecTags == InitTags /\ [][NextTags]_vars

\* the tag of the input is on a line outside every fenced block
TagOutsideFence == ~FenceAfter(input.lead \o <<input.before \o input.tag \o input.after>>, Len(input.lead) + 1).inFence

\* the name a tag text carries, for an opening or self-closing tag
NameInTag(tag) == SubSeq(tag, 2, 1 + RunLength(Tail(tag), "[^\\s/>]"))

IsOpeningOrSelfClosing(tag) == Len(tag) >= 2 /\ tag[1] = "<" /\ tag[2] # "/"

IsCloudTag(tag) == IsOpeningOrSelfClosing(tag) /\ ToLowerCase(NameInTag(tag)) = <<"c", "l", "o", "u", "d">>

\* the output in which the tag of the input has become `text`; the leading
\* lines hold no tag and no directive
OutputWithTagAs(text) == JoinLines(input.lead \o <<input.before \o text \o input.after>>)

\* C13: stripVuePressDirectives rewrites a cloud tag outside a fence, opening or
\* self-closing, with or without attributes, to the empty string: nothing of
\* the tag, its name included, is left in the output.
C13_CloudTagBecomesEmpty ==
    (pc = "stripVuePressDirectives" /\ TagOutsideFence /\ IsCloudTag(input.tag))
        => output = OutputWithTagAs(<<>>)

\* what the code leaves of a cloud tag outside a fence: the tag name as written
\* when the tag pattern matches, the whole tag when it does not (no space before
\* the "/>")
C13_CloudTagLeavesName ==
    (pc = "stripVuePressDirectives" /\ TagOutsideFence /\ IsCloudTag(input.tag))
        => output = OutputWithTagAs(IF TagAt(input.tag).len = 0 THEN input.tag ELSE NameInTag(input.tag))

HasColon(name) == \E i \in 1..Len(name) : name[i] = ":"

\* the name without its namespace prefix: what follows the last colon
RECURSIVE BareName(_)
BareName(name) ==
    IF ~HasColon(name) THEN name ELSE BareName(Tail(name))

IsNamespacedOpening(tag) ==
    /\ IsOpeningOrSelfClosing(tag)
    /\ ~EndsWith(tag, <<"/", ">">>)
    /\ HasColon(NameInTag(tag))
    /\ ToLowerCase(NameInTag(tag)) \notin STANDARD_HTML_TAGS \cup DROP_COMPONENT_TAGS

\* C14: stripVuePressDirectives replaces an opening tag outside a fence whose
\* name contains a namespace colon, and is neither a standard HTML tag nor on
\* the drop list, by its bare name: prefix and colon are discarded.
C14_NamespacedTagBecomesBareName ==
    (pc = "stripVuePressDirectives" /\ TagOutsideFence /\ IsNamespacedOpening(input.tag))
        => output = OutputWithTagAs(BareName(NameInTag(input.tag)))

\* what the code leaves of such a tag: the whole name, prefix and colon kept
C14_NamespacedTagKeepsPrefix ==
    (pc = "stripVuePressDirectives" /\ TagOutsideFence /\ IsNamespacedOpening(input.tag))
        => output = OutputWithTagAs(NameInTag(input.tag))

----------------------------------------------------------------------------
\* The fence tracker fed the lines of a text one by one, as its callers do:
\* state = updateFenceState(line, state), starting from { inFence: false,
\* fenceMarker: '' }

MaxTrackedLines == 3

TrackedLinePool ==
    { Backticks, Tildes, <<" ", " ", BQ, BQ, BQ, "j", "s">>, <<"~", "~", "~", " ", "x">>, <<"~", "~", "~", BQ, BQ, BQ>>, <<"t", "e", "x", "t">>, <<>>, <<"x", " ", BQ, BQ, BQ>>, <<BQ, BQ>> }

InitFence ==
    /\ pc = "lines"
    /\ input \in [lines : SeqsUpTo(TrackedLinePool, MaxTrackedLines), next : {1}]
    /\ output = NotFenced
    /\ ExpandIdle /\ BuildIdle

FeedLine ==
    /\ pc = "lines"
    /\ input.next <= Len(input.lines)
    /\ output' = updateFenceState(input.lines[input.next], output)
    /\ input' = [input EXCEPT !.next = @ + 1]
    /\ UNCHANGED <<pc, expVars, buildVars>>

NextFence == FeedLine

SpecFence == InitFence /\ [][NextFence]_vars

\* the trimmed form of the line starts with the marker
OpensWith(line, marker) == StartsWith(Trim(line), marker)

\* the marker a line counts as carrying: backticks are tested first
CarriedMarker(line) ==
    IF OpensWith(line, Backticks) THEN Backticks
    ELSE IF OpensWith(line, Tildes) THEN Tildes
    ELSE NoMarker

FenceStateConsistent == output.inFence <=> output.fenceMarker # NoMarker

FenceStepRules ==
    LET line == input.lines[input.next]
        marker == CarriedMarker(line)
    IN  /\ (marker = NoMarker) => output' = output
        /\ (marker # NoMarker /\ ~output.inFence) =>
               output' = [inFence |-> TRUE, fenceMarker |-> marker]
        /\ (marker # NoMarker /\ output.inFence /\ marker = output.fenceMarker) =>
               output' = [inFence |-> FALSE, fenceMarker |-> NoMarker]
        /\ (marker # NoMarker /\ output.inFence /\ marker # output.fenceMarker) =>
               output' = output

\* C15: over any sequence of lines, outside a fence a line whose trimmed form
\* starts with three backticks or three tildes enters a fence and records that
\* marker; inside a fence only a line starting with the recorded marker leaves
\* it and a line starting with the other marker changes nothing; a line
\* starting with neither marker never changes the state; and in every state
\* inFence is true exactly when the recorded marker is non-empty.
C15_FenceTrackerRules ==
    [](pc = "lines" => FenceStateConsistent) /\ [][pc = "lines" => FenceStepRules]_vars

\* a fence entered with tildes, a backtick line inside it that changed nothing,
\* and the tilde line that left it
C15_Witness ==
    /\ pc = "lines"
    /\ input.next = 4
    /\ CarriedMarker(input.lines[1]) = Tildes
    /\ CarriedMarker(input.lines[2]) = Backticks
    /\ CarriedMarker(input.lines[3]) = Tildes
    /\ output = NotFenced

----------------------------------------------------------------------------
\* extractSummary called on every content of up to MaxSummaryLines lines

MaxSummaryLines == 4

SummaryLinePool ==
    { Backticks, Tildes, <<"c", "o", "d", "e">>, <<"#", " ", "H">>, <<>>, <<"s", "e", "e", " ", "[", "a", "]", "(", "b", ".", "m", "d", ")">>, <<"-", " ", "i", "t", "e", "m">> }

SummaryInputs ==
    { JoinLines(ls) : ls \in SeqsUpTo(SummaryLinePool, MaxSummaryLines) \ {<<>>} }

InitSummary ==
    /\ pc = "call"
    /\ input \in SummaryInputs
    /\ output = <<>>
    /\ ExpandIdle /\ BuildIdle

CallExtractSummary ==
    /\ pc = "call"
    /\ output' = extractSummary(input)
    /\ pc' = "extractSummary"
    /\ UNCHANGED <<input, expVars, buildVars>>

NextSummary == CallExtractSummary

SpecSummary == InitSummary /\ [][NextSummary]_vars

\* the first paragraph made of lines outside every fenced block: the lines of
\* a fenced block (opening, body, closing) are passed over, as are blank lines
\* before the paragraph, headings, list items and lines that are one HTML tag;
\* the paragraph ends at the first blank line after it began
RECURSIVE UnfencedParagraph(_, _, _)
UnfencedParagraph(lines, i, paragraph) ==
    IF i > Len(lines) THEN paragraph
    ELSE LET trimmed == Trim(lines[i])
         IN  IF InFencedBlock(lines, i) THEN UnfencedParagraph(lines, i + 1, paragraph)
             ELSE IF trimmed = <<>>
                  THEN (IF paragraph # <<>> THEN paragraph
                        ELSE UnfencedParagraph(lines, i + 1, paragraph))
             ELSE IF IsHeadingLine(trimmed) \/ IsListLine(trimmed) \/ IsHtmlTagOnly(trimmed)
                  THEN UnfencedParagraph(lines, i + 1, paragraph)
             ELSE UnfencedParagraph(lines, i + 1, Append(paragraph, trimmed))

ClosesFence(lines, i) == FenceAfter(lines, i - 1).inFence /\ ~FenceAfter(lines, i).inFence

\* C17: extractSummary builds the summary only from lines outside fenced
\* blocks: no opening, body or closing line of a fenced block contributes to
\* the paragraph, and the summary is the cleaned text of the first eligible
\* paragraph of the other lines.
C17_SummaryFromUnfencedLines ==
    pc = "extractSummary" =>
        output = cleanSummaryText(JoinBy(UnfencedParagraph(SplitLines(input), 1, <<>>), " "))

\* the same, for the contents in which no line closes a fence
C17_SummaryWithoutClosedFence ==
    (pc = "extractSummary" /\ \A i \in 1..Len(SplitLines(input)) : ~ClosesFence(SplitLines(input), i))
        => C17_SummaryFromUnfencedLines

====
